---- MODULE Spec2Model ----
(***************************************************************************)
(* Model of the multi-channel G-code execution engine of RepRapFirmware    *)
(* (src/src/GCodes/GCodes.cpp): the resource locks, the shared move        *)
(* buffer, the pause state, the trigger arbitration, the round-robin       *)
(* scheduler and the emergency stop.                                       *)
(***************************************************************************)
EXTENDS Integers, Sequences, FiniteSets, TLC

(***************************************************************************)
(* Bounds of the model.                                                    *)
(***************************************************************************)
\* number of nested (macro) frames all channels together may have pushed
MaxNested == 1
\* largest number of segments a published move is divided into
MaxSegments == 2
\* the highest trigger number: 0 is the emergency stop, 1 the pause, the others run a macro
MaxTrigger == 5
\* the highest trigger number configured when the whole engine runs
MaxSpinTrigger == 1

\* user coordinates range over 0..MaxCoord, feed rates over 1..MaxFeed and
\* tool numbers over -1..MaxTool (-1: no tool selected)
MaxCoord == 1

MaxFeed == 2

MaxTool == 0

\* path lengths range over 0..MaxLength and minimum segment lengths over
\* 1..MaxLength, in quarter units; segments per second and feed rates (quarter
\* units per second) of a segmented move over 1..MaxRate
MaxLength == 5

MaxRate == 2

\* the R word of an arc ranges over -MaxRadius..MaxRadius, its end point over
\* 0..2*MaxRadius+1 along the first axis and 0..1 along the second
MaxRadius == 4

(***************************************************************************)
(* Channels, resources and enumerations.                                   *)
(***************************************************************************)
\* gcodeSources[]: the input channels, the auto-pause channel last
gcodeSources == <<"HTTP", "File", "Trigger", "Autopause">>
NumSources == Len(gcodeSources)
Channels == {gcodeSources[i] : i \in 1..NumSources}
fileGCode == "File"
triggerGCode == "Trigger"
autoPauseGCode == "Autopause"
\* resourceOwners[r] = NoOwner models a null owner pointer
NoOwner == "none"
MoveResource == "Move"
FileSystemResource == "FileSystem"
Resources == {MoveResource, FileSystemResource}

(***************************************************************************)
(* The state of the G-code engine.                                         *)
(***************************************************************************)
VARIABLES
    gbs,              \* per channel: the stack of machine-state frames and the command buffer
    resourceOwners,   \* the owner table: resource -> channel or NoOwner
    toBeHomed,        \* TRUE when the set of axes still to be homed is non-empty
    pauseState,       \* notPaused, pausing, paused or resuming
    isPrinting,       \* the print monitor's record that a file print is in progress
    triggersPending,  \* the numbers of the triggers that have fired and are not yet actioned
    nextGcodeSource,  \* the round-robin cursor, an index into gcodeSources counted from 0
    moveState,        \* the shared move buffer
    codeQueue,        \* the channels with a deferred command queued behind a move
    position,         \* the user position, feed rates, current tool and restore point
    calledIn,         \* SpecErr: the channel and the state the last operation was called in
    pull,             \* SpecRead: segmentsLeftToStartAt, and the consumer's reads of the move
    words,            \* SpecGeom: the words of the move command and its collaborators' answers
    reading,          \* SpecRace: where the motion consumer is inside ReadMove
    files,            \* SpecHold: the positions in the print file and the deferred pause
    waited,           \* SpecSched: per round-robin slot, the calls of Spin since it was serviced
    emergencyStopCommanded,  \* set at interrupt level, consumed by Spin
    build,            \* SpecMove: the move set-up in progress, one store at a time
    lastRead,         \* what the motion consumer copied last, and the move that was meant
    granted,          \* per resource: the channels granted it and not yet released
    cycle,            \* what the last call of Spin did
    lastOp            \* the most recent call and what it returned

vars == <<gbs, resourceOwners, toBeHomed, pauseState, isPrinting, triggersPending,
          nextGcodeSource, moveState, codeQueue, position, calledIn, pull, words,
          reading, files, waited, emergencyStopCommanded, build, lastRead, granted, cycle, lastOp>>

\* what one call of Spin did: the value of nextGcodeSource it was entered with,
\* whether it performed an emergency stop, the triggers it actioned, the
\* channels it offered a quantum (in order) with what SpinGCodeBuffer returned,
\* the moves it published, and the channels that read a new command
EmptyLog ==
    [entry |-> 0, estop |-> FALSE, actioned |-> <<>>, serviced |-> <<>>, published |-> <<>>,
     fetched |-> <<>>]

\* what the variable cycle keeps of the log of a call entered with the cursor
\* at entry: everything but the reads
Kept(log, entry) == [log EXCEPT !.entry = entry, !.fetched = <<>>]

\* the state record the operators below work on
cur == [gbs |-> gbs, resourceOwners |-> resourceOwners, toBeHomed |-> toBeHomed,
        pauseState |-> pauseState, isPrinting |-> isPrinting,
        triggersPending |-> triggersPending, nextGcodeSource |-> nextGcodeSource,
        moveState |-> moveState, codeQueue |-> codeQueue, log |-> EmptyLog]

\* the program state of a state record, without the record of the cycle
Program(s) == [s EXCEPT !.log = EmptyLog]

Set(s) ==
    /\ gbs' = s.gbs
    /\ resourceOwners' = s.resourceOwners
    /\ toBeHomed' = s.toBeHomed
    /\ pauseState' = s.pauseState
    /\ isPrinting' = s.isPrinting
    /\ triggersPending' = s.triggersPending
    /\ nextGcodeSource' = s.nextGcodeSource
    /\ moveState' = s.moveState
    /\ codeQueue' = s.codeQueue

\* calledIn: nothing called yet
NoCall == [gb |-> "none", s |-> <<>>]

\* lastOp: the function called last and its result (for a function that returns
\* nothing: whether the call changed the state)
NoOp == [op |-> "none", result |-> FALSE]

Op(name, result) == [op |-> name, result |-> result]

(***************************************************************************)
(* Machine-state frames.  stack[1] is the original (outermost) frame and   *)
(* stack[Len(stack)] the latest one.                                       *)
(***************************************************************************)
InitialFrame ==
    [lockedResources |-> {}, doingFileMacro |-> FALSE, fileLive |-> FALSE, state |-> "normal",
     waitingForAcknowledgement |-> FALSE, messageAcknowledged |-> FALSE,
     messageCancelled |-> FALSE]

\* a command: its code and, for a move, the number of segments it needs
NoCommand == [code |-> "none", n |-> 0]

InitialBuffer == [stack |-> <<InitialFrame>>, buf |-> "idle", cmd |-> NoCommand]

LatestMachineState(g, gb) == g[gb].stack[Len(g[gb].stack)]

HasPrevious(g, gb) == Len(g[gb].stack) > 1

\* GetPrevious() of the latest frame; only used where HasPrevious holds
PreviousMachineState(g, gb) == g[gb].stack[Len(g[gb].stack) - 1]

SetLatest(g, gb, frame) ==
    [g EXCEPT ![gb].stack = [@ EXCEPT ![Len(@)] = frame]]

SetLockBit(g, gb, r) ==
    SetLatest(g, gb, [LatestMachineState(g, gb) EXCEPT !.lockedResources = @ \cup {r}])

ClearLockBit(g, gb, r) ==
    SetLatest(g, gb, [LatestMachineState(g, gb) EXCEPT !.lockedResources = @ \ {r}])

\* nested frames pushed by all channels together
NestedFrames(g) ==
    LET RECURSIVE Sum(_)
        Sum(i) == IF i = 0 THEN 0 ELSE (Len(g[gcodeSources[i]].stack) - 1) + Sum(i - 1)
    IN Sum(NumSources)

\* GCodeBuffer::PushState: the new frame inherits the lock bits of its parent;
\* it fails when the stack of frames is full
PushState(g, gb) ==
    IF NestedFrames(g) >= MaxNested
    THEN [g |-> g, ok |-> FALSE]
    ELSE [g |-> [g EXCEPT ![gb].stack =
                    Append(@, [LatestMachineState(g, gb) EXCEPT
                                   !.state = "normal", !.fileLive = FALSE,
                                   !.waitingForAcknowledgement = FALSE,
                                   !.messageAcknowledged = FALSE,
                                   !.messageCancelled = FALSE])],
          ok |-> TRUE]

\* GCodeBuffer::PopState: drops the latest frame unless it is the original one
PopState(g, gb) ==
    IF Len(g[gb].stack) <= 1
    THEN [g |-> g, ok |-> FALSE]
    ELSE [g |-> [g EXCEPT ![gb].stack = SubSeq(@, 1, Len(@) - 1)], ok |-> TRUE]

(***************************************************************************)
(* Resource locking.  Each operator takes the state record                 *)
(* s = [gbs, resourceOwners, toBeHomed, ...] and returns the new one.      *)
(***************************************************************************)
\* a plausible slip: the resource is handed over although another channel owns it
LockResourceNoOwnerCheck(s, gb, r) ==
    [s |-> [s EXCEPT !.resourceOwners[r] = gb, !.gbs = SetLockBit(s.gbs, gb, r)],
     result |-> TRUE]

\* a plausible slip: a second lock by the owner itself is refused
LockResourceNotReentrant(s, gb, r) ==
    IF s.resourceOwners[r] = NoOwner
    THEN [s |-> [s EXCEPT !.resourceOwners[r] = gb, !.gbs = SetLockBit(s.gbs, gb, r)],
          result |-> TRUE]
    ELSE [s |-> s, result |-> FALSE]

LockResource(s, gb, r) ==
    IF s.resourceOwners[r] = gb
    THEN [s |-> s, result |-> TRUE]
    ELSE IF s.resourceOwners[r] = NoOwner
    THEN [s |-> [s EXCEPT !.resourceOwners[r] = gb, !.gbs = SetLockBit(s.gbs, gb, r)],
          result |-> TRUE]
    ELSE [s |-> s, result |-> FALSE]

\* a plausible slip: the grab also clears the lock bit of the channel it takes from
GrabResourceClearingOldBit(s, gb, r) ==
    IF s.resourceOwners[r] # gb
    THEN LET old == s.resourceOwners[r]
             g1 == IF old = NoOwner THEN s.gbs ELSE ClearLockBit(s.gbs, old, r)
         IN [s EXCEPT !.resourceOwners[r] = gb, !.gbs = SetLockBit(g1, gb, r)]
    ELSE s

GrabResource(s, gb, r) ==
    IF s.resourceOwners[r] # gb
    THEN [s EXCEPT !.resourceOwners[r] = gb, !.gbs = SetLockBit(s.gbs, gb, r)]
    ELSE s

LockMovement(s, gb) == LockResource(s, gb, MoveResource)

LockFileSystem(s, gb) == LockResource(s, gb, FileSystemResource)

GrabMovement(s, gb) == GrabResource(s, gb, MoveResource)

\* a plausible slip: the owner is cleared and the lock bit is left set
UnlockResourceKeepingBit(s, gb, r) ==
    IF s.resourceOwners[r] = gb
    THEN [s EXCEPT !.resourceOwners[r] = NoOwner]
    ELSE s

UnlockResource(s, gb, r) ==
    IF s.resourceOwners[r] = gb
    THEN [s EXCEPT !.gbs = ClearLockBit(s.gbs, gb, r), !.resourceOwners[r] = NoOwner]
    ELSE s

UnlockMovement(s, gb) == UnlockResource(s, gb, MoveResource)

\* the resources UnlockAll(gb) releases
ResourcesToRelease(s, gb) ==
    LET resourcesToKeep == IF HasPrevious(s.gbs, gb)
                           THEN PreviousMachineState(s.gbs, gb).lockedResources
                           ELSE {}
    IN {r \in Resources : s.resourceOwners[r] = gb /\ r \notin resourcesToKeep}

\* a plausible slip: the lock bits of the parent frame are not consulted
UnlockAllIgnoringParent(s, gb) ==
    LET rel == {r \in Resources : s.resourceOwners[r] = gb}
        latest == LatestMachineState(s.gbs, gb)
    IN [s EXCEPT !.toBeHomed = IF MoveResource \in rel THEN FALSE ELSE @,
                 !.resourceOwners = [r \in Resources |-> IF r \in rel THEN NoOwner ELSE @[r]],
                 !.gbs = SetLatest(s.gbs, gb,
                            [latest EXCEPT !.lockedResources = @ \ rel])]

UnlockAll(s, gb) ==
    LET rel == ResourcesToRelease(s, gb)
        latest == LatestMachineState(s.gbs, gb)
    IN [s EXCEPT !.toBeHomed = IF MoveResource \in rel THEN FALSE ELSE @,
                 !.resourceOwners = [r \in Resources |-> IF r \in rel THEN NoOwner ELSE @[r]],
                 !.gbs = SetLatest(s.gbs, gb,
                            [latest EXCEPT !.lockedResources = @ \ rel])]

(***************************************************************************)
(* The shared move buffer.  A move is set up by a sequence of stores to    *)
(* the fields of moveState; segmentsLeft > 0 tells the motion consumer     *)
(* that a move is available.                                               *)
(***************************************************************************)
noFilePosition == "noFilePosition"

\* GCodeBuffer::GetFilePosition of the channel printing the file
fileOffset == "fileOffset"

InitialMoveState ==
    [segmentsLeft |-> 0, totalSegments |-> 1, segMoveState |-> "inactive",
     doingArcMove |-> FALSE, checkEndstops |-> FALSE, canPauseAfter |-> TRUE,
     filePos |-> noFilePosition]

\* the fields a move set-up writes, without the availability counter
MoveFields(m) ==
    [totalSegments |-> m.totalSegments, segMoveState |-> m.segMoveState,
     doingArcMove |-> m.doingArcMove, checkEndstops |-> m.checkEndstops,
     canPauseAfter |-> m.canPauseAfter, filePos |-> m.filePos]

\* one store: field := value, or field := the current value of another field
Store(f, v) == [field |-> f, value |-> v, from |-> ""]

CopyStore(f, g) == [field |-> f, value |-> 0, from |-> g]

ApplyStore(m, st) ==
    LET v == IF st.from = "" THEN st.value ELSE m[st.from]
    IN [m EXCEPT ![st.field] = v]

RECURSIVE ApplyStores(_, _)
ApplyStores(m, stores) ==
    IF stores = <<>> THEN m
    ELSE ApplyStores(ApplyStore(m, Head(stores)), Tail(stores))

\* RawMove::SetDefaults
SetDefaultsStores ==
    <<Store("checkEndstops", FALSE), Store("filePos", noFilePosition)>>

\* a plausible slip: the move is announced before totalSegments is written
NewSingleSegmentMoveAvailableEarly ==
    <<Store("segmentsLeft", 1), Store("totalSegments", 1)>>

NewSingleSegmentMoveAvailableStores ==
    <<Store("totalSegments", 1), Store("segmentsLeft", 1)>>

NewMoveAvailableStores == <<CopyStore("segmentsLeft", "totalSegments")>>

FilePosOf(gb) == IF gb = fileGCode THEN fileOffset ELSE noFilePosition

\* FinaliseMove, given the move buffer m it finds; cancelled: the object being
\* printed is cancelled, so the move is computed but not made available
FinaliseMoveStores(m, gb, cancelled) ==
    <<Store("canPauseAfter", ~m.checkEndstops /\ ~m.doingArcMove),
      Store("filePos", FilePosOf(gb))>>
    \o (IF cancelled THEN <<>>
        ELSE <<Store("segMoveState", IF m.totalSegments > 1 THEN "active" ELSE "inactive")>>
             \o NewMoveAvailableStores)

\* the stores of DoStraightMove and DoArcMove before they call FinaliseMove
DoStraightMoveStores(c) ==
    <<Store("checkEndstops", FALSE), Store("totalSegments", c.n),
      Store("doingArcMove", FALSE)>>

DoArcMoveStores(c) ==
    <<Store("checkEndstops", FALSE), Store("totalSegments", c.n),
      Store("doingArcMove", TRUE)>>

\* RetractFilament for a tool with a retraction length and no Z hop
RetractFilamentStores(gb, retract) ==
    SetDefaultsStores
    \o <<Store("filePos", FilePosOf(gb)), Store("canPauseAfter", ~retract)>>
    \o NewSingleSegmentMoveAvailableStores

ClearMove(s) ==
    [s EXCEPT !.moveState = [@ EXCEPT !.segmentsLeft = 0, !.segMoveState = "inactive",
                                      !.doingArcMove = FALSE, !.checkEndstops = FALSE]]

\* the record of a move set-up: who wrote the move fields, the owner of
\* Movement and segmentsLeft when it started, and whether it made the move available
LogBuild(s, gb, before) ==
    [s EXCEPT !.log.published =
        Append(@, [gb |-> gb, owner |-> before.resourceOwners[MoveResource],
                   segmentsLeft |-> before.moveState.segmentsLeft,
                   available |-> s.moveState.segmentsLeft > 0])]

\* the motion consumer's poll: copies the move when one is available and
\* counts the segment off; limitOk is the kinematics' verdict on the segment
\* (no print is being resumed inside this move, so no segment is skipped)
ReadMove(s, limitOk) ==
    IF s.moveState.segmentsLeft = 0 THEN s
    ELSE IF s.moveState.segmentsLeft = 1 THEN ClearMove(s)
    ELSE IF ~limitOk
    THEN [s EXCEPT !.moveState = [@ EXCEPT !.segMoveState = "aborted",
                                           !.doingArcMove = FALSE,
                                           !.segmentsLeft = 0]]
    ELSE [s EXCEPT !.moveState.segmentsLeft = @ - 1]

\* nothing published yet: segmentsLeftToStartAt, the number of segments of the
\* move published last, how many times ReadMove has returned true since,
\* whether a segment has failed the limit check, and whether the move was
\* withdrawn by ClearMove
NoPull ==
    [segmentsLeftToStartAt |-> 1, n |-> 0, reads |-> 0, failed |-> FALSE, cleared |-> FALSE]

\* the motion consumer is outside ReadMove; at: the point it has reached,
\* loaded: the value of segmentsLeft it holds for the decrement, withdrawn: the
\* main task has cleared the move since it was published
NotReading == [at |-> "outside", loaded |-> 0, withdrawn |-> FALSE]

\* noFilePosition as a file position: all bits set
noFilePos == 0 - 1

\* waited: every round-robin slot of gcodeSources has just been serviced
NotWaited == [i \in 1..(NumSources - 1) |-> 0]

\* no command of the print file has started a macro
NotStarted == [byFile |-> FALSE, at |-> 0]

\* the position reached in the print file, counted in commands
\* (gb.GetFilePosition() of the print-file channel), the members
\* printFilePositionAtMacroStart, pausedInMacro and deferredPauseCommandPending,
\* and pauseRestorePoint.filePos; started: what started the outermost macro
\* the print-file channel is in; unwound: the frames the last DoPause popped
InitialFiles ==
    [filePosition |-> 0, printFilePositionAtMacroStart |-> 0, pausedInMacro |-> FALSE,
     deferredPauseCommandPending |-> FALSE, rpFilePos |-> noFilePos,
     started |-> NotStarted, unwound |-> 0]

\* a plausible slip: the last segment is handed over and the move stays
RECURSIVE ReadMoveKeepingLast(_, _, _)
ReadMoveKeepingLast(m, segmentsLeftToStartAt, limitOk) ==
    IF m.segmentsLeft = 0 THEN [m |-> m, result |-> FALSE]
    ELSE IF m.segmentsLeft = 1 THEN [m |-> m, result |-> TRUE]
    ELSE IF segmentsLeftToStartAt < m.segmentsLeft
    THEN ReadMoveKeepingLast([m EXCEPT !.segmentsLeft = @ - 1], segmentsLeftToStartAt, limitOk)
    ELSE IF ~limitOk
    THEN [m |-> [m EXCEPT !.segMoveState = "aborted", !.doingArcMove = FALSE,
                          !.segmentsLeft = 0],
          result |-> FALSE]
    ELSE [m |-> [m EXCEPT !.segmentsLeft = @ - 1], result |-> TRUE]

\* a plausible slip: a segment outside the limits is dropped and the rest of
\* the move is still delivered
RECURSIVE ReadMoveDroppingSegment(_, _, _)
ReadMoveDroppingSegment(m, segmentsLeftToStartAt, limitOk) ==
    IF m.segmentsLeft = 0 THEN [m |-> m, result |-> FALSE]
    ELSE IF m.segmentsLeft = 1
    THEN [m |-> ClearMove([moveState |-> m]).moveState, result |-> TRUE]
    ELSE IF segmentsLeftToStartAt < m.segmentsLeft
    THEN ReadMoveDroppingSegment([m EXCEPT !.segmentsLeft = @ - 1], segmentsLeftToStartAt, limitOk)
    ELSE IF ~limitOk
    THEN [m |-> [m EXCEPT !.segmentsLeft = @ - 1], result |-> FALSE]
    ELSE [m |-> [m EXCEPT !.segmentsLeft = @ - 1], result |-> TRUE]

\* ReadMove on the move buffer m with what it returns, including the segments
\* it skips when a print is resumed part way through a move: the loop goes on
\* while the segment at hand was printed before the pause
RECURSIVE ReadMoveFrom(_, _, _)
ReadMoveFrom(m, segmentsLeftToStartAt, limitOk) ==
    IF m.segmentsLeft = 0 THEN [m |-> m, result |-> FALSE]
    ELSE IF m.segmentsLeft = 1
    THEN [m |-> ClearMove([moveState |-> m]).moveState, result |-> TRUE]
    ELSE IF segmentsLeftToStartAt < m.segmentsLeft
    THEN ReadMoveFrom([m EXCEPT !.segmentsLeft = @ - 1], segmentsLeftToStartAt, limitOk)
    ELSE IF ~limitOk
    THEN [m |-> [m EXCEPT !.segMoveState = "aborted", !.doingArcMove = FALSE,
                          !.segmentsLeft = 0],
          result |-> FALSE]
    ELSE [m |-> [m EXCEPT !.segmentsLeft = @ - 1], result |-> TRUE]

(***************************************************************************)
(* Commands.                                                               *)
(***************************************************************************)
G1(n) == [code |-> "G1", n |-> n]

G2(n) == [code |-> "G2", n |-> n]

G10 == [code |-> "G10", n |-> 1]

G11 == [code |-> "G11", n |-> 1]

MoveCommands == {G1(n) : n \in 1..MaxSegments} \cup {G2(n) : n \in 1..MaxSegments} \cup {G10, G11}

\* the stores a move command makes before FinaliseMove (G10/G11: all of them)
BodyStores(c, gb) ==
    IF c.code = "G1" THEN DoStraightMoveStores(c)
    ELSE IF c.code = "G2" THEN DoArcMoveStores(c)
    ELSE RetractFilamentStores(gb, c.code = "G10")

CallsFinaliseMove(c) == c.code \in {"G1", "G2"}

\* the move buffer a set-up started on m leaves when nothing interferes
MoveOf(m, c, gb, cancelled) ==
    LET body == ApplyStores(m, BodyStores(c, gb))
    IN IF CallsFinaliseMove(c)
       THEN ApplyStores(body, FinaliseMoveStores(body, gb, cancelled))
       ELSE body

(***************************************************************************)
(* SpecMove: a channel sets up moves one store at a time while the motion  *)
(* consumer polls ReadMove between any two stores.                         *)
(***************************************************************************)
IdleBuild ==
    [phase |-> "idle", gb |-> NoOwner, cmd |-> NoCommand, cancelled |-> FALSE,
     todo |-> <<>>, intended |-> MoveFields(InitialMoveState)]

NoRead ==
    [taken |-> FALSE, m |-> MoveFields(InitialMoveState),
     intended |-> MoveFields(InitialMoveState)]

(***************************************************************************)
(* Channel buffers: the parts of GCodeBuffer the engine relies on.         *)
(***************************************************************************)
GetState(s, gb) == LatestMachineState(s.gbs, gb).state

SetState(s, gb, st) ==
    [s EXCEPT !.gbs = SetLatest(@, gb, [LatestMachineState(@, gb) EXCEPT !.state = st])]

\* GCodeBuffer::Init: the command buffer is emptied
BufInit(s, gb) == [s EXCEPT !.gbs[gb].buf = "idle", !.gbs[gb].cmd = NoCommand]

IsReady(s, gb) == s.gbs[gb].buf = "ready"

IsDoingFile(s, gb) == LatestMachineState(s.gbs, gb).fileLive

IsDoingFileMacro(s, gb) == LatestMachineState(s.gbs, gb).doingFileMacro

IsCompletelyIdle(s, gb) ==
    GetState(s, gb) = "normal" /\ s.gbs[gb].buf = "idle" /\ ~IsDoingFile(s, gb)

\* GCodeBuffer::AbortFile(true): every macro frame is dropped and the file closed
AbortFile(s, gb) ==
    [s EXCEPT !.gbs[gb].stack = <<[@[1] EXCEPT !.fileLive = FALSE, !.doingFileMacro = FALSE]>>]

IsTriggerBusy(s) == IsDoingFile(s, triggerGCode)

(***************************************************************************)
(* Stopping, aborting and resetting.                                       *)
(***************************************************************************)
StopPrint(s) ==
    LET s1 == [s EXCEPT !.moveState.segmentsLeft = 0,
                        !.pauseState = "notPaused",
                        !.gbs[fileGCode].stack[1].fileLive = FALSE]
        s2 == UnlockAll([BufInit(s1, fileGCode) EXCEPT !.codeQueue = {}], fileGCode)
    IN [s2 EXCEPT !.isPrinting = FALSE]

AbortPrint(s, gb) ==
    LET a == AbortFile(s, gb)
    IN IF gb = fileGCode THEN StopPrint(a) ELSE a

\* EmergencyStop: AbortPrint for gcodeSources[1..i] in turn
RECURSIVE AbortPrintUpTo(_, _)
AbortPrintUpTo(s, i) ==
    IF i = 0 THEN s ELSE AbortPrint(AbortPrintUpTo(s, i - 1), gcodeSources[i])

EmergencyStop(s) == AbortPrintUpTo(s, NumSources)

\* a plausible slip: Reset forgets the owner table
ResetKeepingOwners(s) ==
    [ClearMove(s) EXCEPT
        !.gbs = [gb \in Channels |-> InitialBuffer],
        !.nextGcodeSource = 0,
        !.triggersPending = {},
        !.pauseState = "notPaused",
        !.moveState.filePos = noFilePosition,
        !.codeQueue = {}]

\* a plausible slip: Reset moves the scheduler's cursor on instead of rewinding it
ResetAdvancingCursor(s) ==
    [ClearMove(s) EXCEPT
        !.gbs = [gb \in Channels |-> InitialBuffer],
        !.nextGcodeSource = (s.nextGcodeSource + 1) % (NumSources - 1),
        !.triggersPending = {},
        !.pauseState = "notPaused",
        !.moveState.filePos = noFilePosition,
        !.codeQueue = {},
        !.resourceOwners = [r \in Resources |-> NoOwner]]

Reset(s) ==
    [ClearMove(s) EXCEPT
        !.gbs = [gb \in Channels |-> InitialBuffer],
        !.nextGcodeSource = 0,
        !.triggersPending = {},
        !.pauseState = "notPaused",
        !.moveState.filePos = noFilePosition,
        !.codeQueue = {},
        !.resourceOwners = [r \in Resources |-> NoOwner]]

DoEmergencyStop(s) == [Reset(EmergencyStop(s)) EXCEPT !.log.estop = TRUE]

(***************************************************************************)
(* Macros.                                                                 *)
(***************************************************************************)
\* a plausible slip: a failed push is reported and nothing is aborted
PushWithoutAbort(s, gb) ==
    LET res == PushState(s.gbs, gb)
    IN IF res.ok THEN [s |-> [s EXCEPT !.gbs = res.g], result |-> TRUE]
       ELSE [s |-> s, result |-> FALSE]

Push(s, gb) ==
    LET res == PushState(s.gbs, gb)
    IN IF res.ok THEN [s |-> [s EXCEPT !.gbs = res.g], result |-> TRUE]
       ELSE [s |-> AbortPrint(s, gb), result |-> FALSE]

Pop(s, gb) == [s EXCEPT !.gbs = PopState(@, gb).g]

\* found: the macro file exists
DoFileMacro(s, gb, found, reportMissing) ==
    IF ~found THEN [s |-> s, result |-> reportMissing]
    ELSE LET p == Push(s, gb)
         IN IF ~p.result THEN [s |-> p.s, result |-> TRUE]
            ELSE LET f == [LatestMachineState(p.s.gbs, gb) EXCEPT
                               !.fileLive = TRUE, !.doingFileMacro = TRUE, !.state = "normal"]
                 IN [s |-> BufInit([p.s EXCEPT !.gbs = SetLatest(@, gb, f)], gb),
                     result |-> TRUE]

\* standstill: the motion system reports that all queued moves have finished
LockMovementAndWaitForStandstill(s, gb, standstill) ==
    LET res == LockMovement(s, gb)
    IN IF ~res.result THEN [s |-> s, result |-> FALSE]
       ELSE [s |-> res.s, result |-> res.s.moveState.segmentsLeft = 0 /\ standstill]

(***************************************************************************)
(* Pausing.                                                                *)
(***************************************************************************)
\* a plausible slip: a print that is pausing or paused still counts as printing
IsReallyPrintingIgnoringPause(s) == s.isPrinting

IsReallyPrinting(s) == s.isPrinting /\ s.pauseState = "notPaused"

GetFilePosition(s) ==
    IF ~s.gbs[fileGCode].stack[1].fileLive THEN noFilePosition ELSE fileOffset

\* the file channel's macro frames are dropped (DoPause, nothing pending)
RECURSIVE PopFileMacros(_)
PopFileMacros(s) ==
    IF IsDoingFileMacro(s, fileGCode) /\ HasPrevious(s.gbs, fileGCode)
    THEN PopFileMacros(Pop(s, fileGCode))
    ELSE s

\* GCodeQueue::PurgeEntries: the commands queued behind moves that will not
\* now be scheduled are dropped
PurgeEntries(s, movesSkipped) ==
    IF movesSkipped THEN [s EXCEPT !.codeQueue = {}] ELSE s

\* movesSkipped: the motion system could discard queued moves
DoPause(s, gb, newState, movesSkipped) ==
    LET s1 == IF gb = fileGCode THEN s
              ELSE LET a == IF movesSkipped \/ s.moveState.segmentsLeft # 0
                            THEN ClearMove(s)
                            ELSE PopFileMacros(s)
                       rpFilePos == IF movesSkipped THEN fileOffset
                                    ELSE IF s.moveState.segmentsLeft # 0 THEN s.moveState.filePos
                                    ELSE GetFilePosition(s)
                   IN PurgeEntries(IF rpFilePos # noFilePosition /\ IsDoingFile(a, fileGCode)
                                   THEN UnlockAll(a, fileGCode)
                                   ELSE a, movesSkipped)
    IN [SetState(s1, gb, newState) EXCEPT !.pauseState = "pausing"]

\* a plausible slip: the auto-pause channel asks for Movement instead of
\* taking it, and gives up when another channel owns it
DoEmergencyPauseLocking(s, movesSkipped) ==
    IF ~IsCompletelyIdle(s, autoPauseGCode) THEN [s |-> s, result |-> FALSE]
    ELSE LET l == LockMovement(s, autoPauseGCode)
         IN IF ~l.result THEN [s |-> s, result |-> FALSE]
            ELSE LET g == l.s
                     a == IF movesSkipped
                             \/ (g.moveState.segmentsLeft # 0
                                 /\ g.moveState.filePos # noFilePosition)
                          THEN ClearMove(g) ELSE g
                 IN [s |-> [PurgeEntries(a, movesSkipped) EXCEPT !.pauseState = "paused"],
                     result |-> TRUE]

DoEmergencyPause(s, movesSkipped) ==
    IF ~IsCompletelyIdle(s, autoPauseGCode) THEN [s |-> s, result |-> FALSE]
    ELSE LET g == GrabMovement(s, autoPauseGCode)
             a == IF movesSkipped
                     \/ (g.moveState.segmentsLeft # 0 /\ g.moveState.filePos # noFilePosition)
                  THEN ClearMove(g) ELSE g
         IN [s |-> [PurgeEntries(a, movesSkipped) EXCEPT !.pauseState = "paused"],
             result |-> TRUE]

LowVoltagePause(s, movesSkipped) ==
    IF s.pauseState # "notPaused" \/ ~s.isPrinting THEN s
    ELSE LET p == DoEmergencyPause(s, movesSkipped)
         IN IF ~p.result THEN s
            ELSE SetState(p.s, autoPauseGCode, "powerFailPausing1")

(***************************************************************************)
(* Triggers.                                                               *)
(***************************************************************************)
TriggerNumbers == 0..MaxTrigger

\* the triggers that are configured when the whole engine runs
SpinTriggers == 0..MaxSpinTrigger

LowestSetBit(bits) == CHOOSE i \in bits : \A j \in bits : i <= j

LogActioned(s, t) == [s EXCEPT !.log.actioned = Append(@, t)]

\* a poll that drops the pause trigger when Movement cannot be locked
CheckTriggersDroppingPause(s, fired, movesSkipped, found) ==
    LET s0 == [s EXCEPT !.triggersPending = @ \cup fired]
    IN IF s0.triggersPending = {} THEN s0
       ELSE LET lowestTriggerPending == LowestSetBit(s0.triggersPending)
                cleared == [s0 EXCEPT !.triggersPending = @ \ {lowestTriggerPending}]
            IN IF lowestTriggerPending = 0
               THEN DoEmergencyStop(LogActioned(cleared, 0))
               ELSE IF IsTriggerBusy(s0) \/ GetState(s0, triggerGCode) # "normal"
               THEN s0
               ELSE IF lowestTriggerPending = 1
               THEN IF ~IsReallyPrinting(s0) THEN cleared
                    ELSE LET l == LockMovement(cleared, triggerGCode)
                         IN IF l.result
                            THEN DoPause(LogActioned(l.s, 1), triggerGCode, "pausing1", movesSkipped)
                            ELSE cleared
               ELSE DoFileMacro(LogActioned(cleared, lowestTriggerPending),
                                triggerGCode, found, TRUE).s

\* a plausible slip: a pause trigger that finds nothing printing stays pending
CheckTriggersKeepingPauseBit(s, fired, movesSkipped, found) ==
    LET s0 == [s EXCEPT !.triggersPending = @ \cup fired]
    IN IF s0.triggersPending = {} THEN s0
       ELSE LET lowestTriggerPending == LowestSetBit(s0.triggersPending)
                cleared == [s0 EXCEPT !.triggersPending = @ \ {lowestTriggerPending}]
            IN IF lowestTriggerPending = 0
               THEN DoEmergencyStop(LogActioned(cleared, 0))
               ELSE IF IsTriggerBusy(s0) \/ GetState(s0, triggerGCode) # "normal"
               THEN s0
               ELSE IF lowestTriggerPending = 1
               THEN IF ~IsReallyPrinting(s0) THEN s0
                    ELSE LET l == LockMovement(cleared, triggerGCode)
                         IN IF l.result
                            THEN DoPause(LogActioned(l.s, 1), triggerGCode, "pausing1", movesSkipped)
                            ELSE s0
               ELSE DoFileMacro(LogActioned(cleared, lowestTriggerPending),
                                triggerGCode, found, TRUE).s

\* a plausible slip: only the pause trigger waits for the trigger channel
CheckTriggersMacroWhenBusy(s, fired, movesSkipped, found) ==
    LET s0 == [s EXCEPT !.triggersPending = @ \cup fired]
    IN IF s0.triggersPending = {} THEN s0
       ELSE LET lowestTriggerPending == LowestSetBit(s0.triggersPending)
                cleared == [s0 EXCEPT !.triggersPending = @ \ {lowestTriggerPending}]
                busy == IsTriggerBusy(s0) \/ GetState(s0, triggerGCode) # "normal"
            IN IF lowestTriggerPending = 0
               THEN DoEmergencyStop(LogActioned(cleared, 0))
               ELSE IF lowestTriggerPending = 1
               THEN IF busy THEN s0
                    ELSE IF ~IsReallyPrinting(s0) THEN cleared
                    ELSE LET l == LockMovement(cleared, triggerGCode)
                         IN IF l.result
                            THEN DoPause(LogActioned(l.s, 1), triggerGCode, "pausing1", movesSkipped)
                            ELSE s0
               ELSE DoFileMacro(LogActioned(cleared, lowestTriggerPending),
                                triggerGCode, found, TRUE).s

\* a plausible slip: trigger 0 waits, like the others, for the trigger channel
CheckTriggersStopWhenIdle(s, fired, movesSkipped, found) ==
    LET s0 == [s EXCEPT !.triggersPending = @ \cup fired]
    IN IF s0.triggersPending = {} THEN s0
       ELSE LET lowestTriggerPending == LowestSetBit(s0.triggersPending)
                cleared == [s0 EXCEPT !.triggersPending = @ \ {lowestTriggerPending}]
            IN IF IsTriggerBusy(s0) \/ GetState(s0, triggerGCode) # "normal"
               THEN s0
               ELSE IF lowestTriggerPending = 0
               THEN DoEmergencyStop(LogActioned(cleared, 0))
               ELSE IF lowestTriggerPending = 1
               THEN IF ~IsReallyPrinting(s0) THEN cleared
                    ELSE LET l == LockMovement(cleared, triggerGCode)
                         IN IF l.result
                            THEN DoPause(LogActioned(l.s, 1), triggerGCode, "pausing1", movesSkipped)
                            ELSE s0
               ELSE DoFileMacro(LogActioned(cleared, lowestTriggerPending),
                                triggerGCode, found, TRUE).s

\* fired: the triggers whose condition is found true by this poll
CheckTriggers(s, fired, movesSkipped, found) ==
    LET s0 == [s EXCEPT !.triggersPending = @ \cup fired]
    IN IF s0.triggersPending = {} THEN s0
       ELSE LET lowestTriggerPending == LowestSetBit(s0.triggersPending)
                cleared == [s0 EXCEPT !.triggersPending = @ \ {lowestTriggerPending}]
            IN IF lowestTriggerPending = 0
               THEN DoEmergencyStop(LogActioned(cleared, 0))
               ELSE IF IsTriggerBusy(s0) \/ GetState(s0, triggerGCode) # "normal"
               THEN s0
               ELSE IF lowestTriggerPending = 1
               THEN IF ~IsReallyPrinting(s0) THEN cleared
                    ELSE LET l == LockMovement(cleared, triggerGCode)
                         IN IF l.result
                            THEN DoPause(LogActioned(l.s, 1), triggerGCode, "pausing1", movesSkipped)
                            ELSE s0
               ELSE DoFileMacro(LogActioned(cleared, lowestTriggerPending),
                                triggerGCode, found, TRUE).s

(***************************************************************************)
(* Executing a command.  Every operator named ...Outcomes returns the set  *)
(* of results [s, result] over the answers the collaborators may give.     *)
(***************************************************************************)
M98 == [code |-> "M98", n |-> 0]

M32 == [code |-> "M32", n |-> 0]

M25 == [code |-> "M25", n |-> 0]

M226 == [code |-> "M226", n |-> 0]

M24 == [code |-> "M24", n |-> 0]

M0 == [code |-> "M0", n |-> 0]

G28 == [code |-> "G28", n |-> 0]

\* what the normal input of a channel can deliver: a segmented move, homing,
\* the start of a print, a pause, a resume, a cancellation
NormalCommands(gb) ==
    IF gb = "HTTP" THEN {G1(MaxSegments), G28, M32, M25, M24, M0} ELSE {}

\* what a file can contain: a print file, or a macro file
FileCommands(s, gb) ==
    IF gb = fileGCode /\ ~HasPrevious(s.gbs, gb)
    THEN {G1(1), G10, M226}
    ELSE {G1(1)}

\* the command has completed: its reply is sent, and the locks are released
\* unless a state machine has been started
Finish(s, gb) ==
    LET b == BufInit(s, gb)
    IN [s |-> IF GetState(b, gb) = "normal" THEN UnlockAll(b, gb) ELSE b, result |-> TRUE]

NotFinished(s) == [s |-> s, result |-> FALSE]

\* a plausible slip: the locks are kept until the command has completed
DoStraightMoveKeepingLock(s, gb, c, cancelled) ==
    LET m == MoveOf(s.moveState, c, gb, cancelled)
        s1 == [s EXCEPT !.moveState = m]
        s2 == IF ~cancelled /\ m.totalSegments > 1
              THEN SetState(s1, gb, "waitingForSegmentedMoveToGo")
              ELSE s1
    IN LogBuild(s2, gb, s)

\* DoStraightMove and DoArcMove (the caller has the Movement lock and has seen
\* segmentsLeft = 0)
DoStraightMove(s, gb, c, cancelled) ==
    LET m == MoveOf(s.moveState, c, gb, cancelled)
        s1 == [s EXCEPT !.moveState = m]
        s2 == IF ~cancelled /\ m.totalSegments > 1
              THEN SetState(s1, gb, "waitingForSegmentedMoveToGo")
              ELSE s1
    IN UnlockAll(LogBuild(s2, gb, s), gb)

(***************************************************************************)
(* The move commands from their words.  Lengths are whole numbers of a     *)
(* quarter unit, rates are whole numbers per second; the verdicts of the   *)
(* homing check, the limit check and the extrusion words are inputs.       *)
(***************************************************************************)
\* err == nullptr
noError == "nullptr"

\* no move command is being executed
NoWords == [code |-> "none"]

\* the checks of an ordinary G0/G1 (moveType 0), in the order of the code
StraightChecks ==
    <<"G0/G1: bad restore point number",
      "G0/G1: insufficient axes homed",
      "Multiple E parameters in G1 commands are not supported in absolute extrusion mode",
      "G0/G1: target position outside machine limits",
      "G0/G1: target position not reachable from current position">>

\* the checks of G2/G3 that follow the computation of the centre
ArcChecks ==
    <<"G2/G3: insufficient axes homed",
      "G2/G3: outside machine limits",
      "Multiple E parameters in G1 commands are not supported in absolute extrusion mode">>

Range(f) == {f[i] : i \in DOMAIN f}

\* the words of a G0/G1: the check that fails (noError: none does), whether
\* an axis is mentioned, the path length, and what the kinematics and the
\* height map answer: whether the move is to be segmented, the minimum
\* segment length, the segments per second, the feed rate (quarter units per
\* second), and the segments the mesh asks for (0: no mesh in use)
StraightWords ==
    [code : {"G1"}, fails : Range(StraightChecks) \cup {noError}, axesMentioned : BOOLEAN,
     moveLength : 0..MaxLength, useSegmentation : BOOLEAN, minSegmentLength : 1..MaxLength,
     segmentsPerSecond : 1..MaxRate, feedRate : 1..MaxRate, minMeshSegments : 0..MaxRate]

\* the words of a G2/G3: the end point relative to the start point, the R
\* word (seenR: present), whether an I or J word is non-zero, the direction,
\* the check that fails, and the number of segments the arc is divided into
ArcWords ==
    [code : {"G2"}, fails : Range(ArcChecks) \cup {noError},
     deltaAxis0 : 0..(2 * MaxRadius + 1), deltaAxis1 : 0..1, seenR : BOOLEAN,
     rParam : (0 - MaxRadius)..MaxRadius, seenIJ : BOOLEAN, clockwise : BOOLEAN,
     n : 1..MaxSegments]

Max(a, b) == IF a >= b THEN a ELSE b

\* min<float> of two ratios <<numerator, denominator>>
MinRatio(p, q) == IF p[1] * q[2] <= q[1] * p[2] THEN p ELSE q

\* a plausible slip: the quotient is rounded up
LrintUp(p) == (p[1] + p[2] - 1) \div p[2]

\* lrintf of the ratio p: the nearest integer, the even one of two equally near
Lrint(p) ==
    LET q == p[1] \div p[2]
        r == p[1] % p[2]
    IN IF 2 * r < p[2] THEN q
       ELSE IF 2 * r > p[2] THEN q + 1
       ELSE IF q % 2 = 0 THEN q ELSE q + 1

\* moveLength * GetReciprocalMinSegmentLength() and moveTime * GetSegmentsPerSecond()
SegmentsByLength(w) == <<w.moveLength, w.minSegmentLength>>

SegmentsByTime(w) == <<w.moveLength * w.segmentsPerSecond, w.feedRate>>

\* moveState.totalSegments of an ordinary G0/G1
TotalSegments(w) ==
    IF ~w.axesMentioned THEN 1
    ELSE LET kin == IF w.useSegmentation
                    THEN Max(1, Lrint(MinRatio(SegmentsByLength(w), SegmentsByTime(w))))
                    ELSE 1
             minMeshSegments == Max(1, w.minMeshSegments)
         IN IF w.minMeshSegments > 0 /\ minMeshSegments > kin THEN minMeshSegments ELSE kin

\* the first check of the list that fails, if it is reached
FirstError(w, reached) == IF w.fails \in reached THEN w.fails ELSE noError

\* a plausible slip: the move is made available before the words are checked
DoStraightMoveWordsCheckedLate(s, gb, w) ==
    LET s0 == [s EXCEPT !.moveState.checkEndstops = FALSE]
        reached == IF w.axesMentioned THEN Range(StraightChecks)
                   ELSE {StraightChecks[i] : i \in 1..3}
        err == FirstError(w, reached)
        done == DoStraightMove(s0, gb, G1(TotalSegments(w)), FALSE)
    IN [s |-> done, result |-> TRUE, err |-> err]

\* DoStraightMove for an ordinary move that is not the first one after an
\* object was skipped: the checks, then the move is set up and made available
DoStraightMoveWords(s, gb, w) ==
    LET s0 == [s EXCEPT !.moveState.checkEndstops = FALSE]
        reached == IF w.axesMentioned THEN Range(StraightChecks)
                   ELSE {StraightChecks[i] : i \in 1..3}
        err == FirstError(w, reached)
    IN IF err # noError THEN [s |-> s0, result |-> TRUE, err |-> err]
       ELSE [s |-> DoStraightMove(s0, gb, G1(TotalSegments(w)), FALSE), result |-> TRUE,
             err |-> noError]

\* the answers of Kinematics::LimitPosition
LimitPositionResults == {"ok", "adjusted", "intermediateUnreachable",
                         "adjustedAndIntermediateUnreachable"}

MachineTypes == {"fff", "laser", "cnc"}

\* the words of a G0/G1 that passes the checks before the limits: whether it
\* is coordinated (G1) or not (G0), the extrusion requested by its E word,
\* the laser power of its S word, the machine it runs on, and the answers of
\* LimitPosition to the move as commanded (lp) and to the retry as an
\* uncoordinated move (lp2)
LimitWords ==
    [code : {"G1"}, fails : {noError}, axesMentioned : {TRUE}, moveLength : {MaxLength},
     useSegmentation : BOOLEAN, minSegmentLength : {1}, segmentsPerSecond : {MaxRate},
     feedRate : {1}, minMeshSegments : {0}, machineType : MachineTypes,
     isCoordinated : BOOLEAN, requestedExtrusionAmount : -1..1, laserPwm : 0..1,
     lp : LimitPositionResults, lp2 : LimitPositionResults]

\* LoadExtrusionAndFeedrateFromGCode: moveState.hasPositiveExtrusion
HasPositiveExtrusion(w) == w.requestedExtrusionAmount > 0

\* the move may be tried again as an uncoordinated move
IsTravelMove(w) ==
    /\ w.isCoordinated
    /\ \/ w.machineType = "fff" /\ ~HasPositiveExtrusion(w)
       \/ w.machineType = "laser" /\ w.laserPwm = 0

\* a plausible slip: the retry is made for every coordinated move
LimitCheckRetryingAll(w) ==
    LET outside == [err |-> StraightChecks[4], isCoordinated |-> w.isCoordinated,
                    userPositionAdjusted |-> FALSE]
        adjusted == w.lp \in {"adjusted", "adjustedAndIntermediateUnreachable"}
        unreachable == w.lp \in {"intermediateUnreachable", "adjustedAndIntermediateUnreachable"}
    IN IF adjusted /\ w.machineType # "fff" THEN outside
       ELSE IF ~unreachable
       THEN [err |-> noError, isCoordinated |-> w.isCoordinated,
             userPositionAdjusted |-> adjusted]
       ELSE IF w.isCoordinated /\ w.lp2 = "ok"
       THEN [err |-> noError, isCoordinated |-> FALSE, userPositionAdjusted |-> adjusted]
       ELSE [err |-> StraightChecks[5], isCoordinated |-> w.isCoordinated,
             userPositionAdjusted |-> adjusted]

\* the switch on the answer of LimitPosition: the error if the move is
\* rejected, moveState.isCoordinated afterwards, and whether the user
\* position was brought within the limits
LimitCheck(w) ==
    LET outside == [err |-> StraightChecks[4], isCoordinated |-> w.isCoordinated,
                    userPositionAdjusted |-> FALSE]
        adjusted == w.lp \in {"adjusted", "adjustedAndIntermediateUnreachable"}
        unreachable == w.lp \in {"intermediateUnreachable", "adjustedAndIntermediateUnreachable"}
    IN IF adjusted /\ w.machineType # "fff" THEN outside
       ELSE IF ~unreachable
       THEN [err |-> noError, isCoordinated |-> w.isCoordinated,
             userPositionAdjusted |-> adjusted]
       ELSE IF IsTravelMove(w) /\ w.lp2 = "ok"
       THEN [err |-> noError, isCoordinated |-> FALSE, userPositionAdjusted |-> adjusted]
       ELSE [err |-> StraightChecks[5], isCoordinated |-> w.isCoordinated,
             userPositionAdjusted |-> adjusted]

\* DoStraightMove with the limit check worked out from the answers of
\* LimitPosition
DoStraightMoveLimits(s, gb, w) ==
    LET lc == LimitCheck(w)
        r == DoStraightMoveWords(s, gb, [w EXCEPT !.fails = lc.err])
    IN [s |-> r.s, result |-> r.result, err |-> r.err, isCoordinated |-> lc.isCoordinated,
        userPositionAdjusted |-> lc.userPositionAdjusted]

\* the radius form of G2/G3.  hSquared = R^2 - dSquared/4 is kept as
\* hSquared4 = 4 * hSquared; hDivD is kept by its square, the ratio
\* hSquared4 / (4 * dSquared), and its sign
dSquaredOf(w) == w.deltaAxis0 * w.deltaAxis0 + w.deltaAxis1 * w.deltaAxis1

hSquared4Of(w) == 4 * w.rParam * w.rParam - dSquaredOf(w)

\* hSquared < -0.02 * fsquare(rParam)
RadiusTooSmall(w) == 100 * hSquared4Of(w) < 0 - 8 * w.rParam * w.rParam

\* the centre is not computed (hDivD is not used)
CentreError(err) == [err |-> err, hDivDSquared |-> <<0, 1>>, negative |-> FALSE]

\* a plausible slip: no tolerance for a radius slightly too short
RadiusCentreExact(w) ==
    IF dSquaredOf(w) = 0
    THEN CentreError("G2/G3: distance between start and end points must not be zero")
    ELSE IF hSquared4Of(w) < 0
    THEN CentreError("G2/G3: radius is too small to reach endpoint")
    ELSE [err |-> noError,
          hDivDSquared |-> <<hSquared4Of(w), 4 * dSquaredOf(w)>>,
          negative |-> (w.clockwise /\ w.rParam < 0) \/ (~w.clockwise /\ w.rParam > 0)]

\* the centre of a radius arc: an error, or hDivD, from which
\* iParam = deltaAxis0/2 + deltaAxis1 * hDivD and jParam = deltaAxis1/2 - deltaAxis0 * hDivD
RadiusCentre(w) ==
    IF dSquaredOf(w) = 0
    THEN CentreError("G2/G3: distance between start and end points must not be zero")
    ELSE IF hSquared4Of(w) < 0 /\ RadiusTooSmall(w)
    THEN CentreError("G2/G3: radius is too small to reach endpoint")
    ELSE [err |-> noError,
          hDivDSquared |-> <<Max(hSquared4Of(w), 0), 4 * dSquaredOf(w)>>,
          negative |-> (w.clockwise /\ w.rParam < 0) \/ (~w.clockwise /\ w.rParam > 0)]

\* the centre of an arc given by I and J
OffsetCentre(w) ==
    IF ~w.seenIJ THEN CentreError("G2/G3: no I J K or R parameter") ELSE CentreError(noError)

ArcCentre(w) == IF w.seenR THEN RadiusCentre(w) ELSE OffsetCentre(w)

\* DoArcMove for a move that is not the first one after an object was
\* skipped; checkEndstops is cleared before the extrusion words are read
DoArcMoveWords(s, gb, w) ==
    LET centre == ArcCentre(w)
        err == IF centre.err # noError THEN centre.err ELSE w.fails
        s0 == IF err = ArcChecks[3] THEN [s EXCEPT !.moveState.checkEndstops = FALSE] ELSE s
    IN IF err # noError THEN [s |-> s0, result |-> TRUE, err |-> err, centre |-> centre]
       ELSE [s |-> DoStraightMove(s, gb, G2(w.n), FALSE), result |-> TRUE, err |-> noError,
             centre |-> centre]

\* a plausible slip: the retraction does not wait for the previous move to go
RetractFilamentNoWait(s, gb, retract) ==
    LET l == LockMovement(s, gb)
    IN IF ~l.result THEN NotFinished(s)
       ELSE [s |-> LogBuild([l.s EXCEPT !.moveState =
                                 MoveOf(@, IF retract THEN G10 ELSE G11, gb, FALSE)], gb, l.s),
             result |-> TRUE]

RetractFilament(s, gb, retract) ==
    LET l == LockMovement(s, gb)
    IN IF ~l.result THEN NotFinished(s)
       ELSE IF l.s.moveState.segmentsLeft # 0 THEN NotFinished(l.s)
       ELSE [s |-> LogBuild([l.s EXCEPT !.moveState =
                                 MoveOf(@, IF retract THEN G10 ELSE G11, gb, FALSE)], gb, l.s),
             result |-> TRUE]

DoHome(s, gb, standstill) ==
    LET l == LockMovementAndWaitForStandstill(s, gb, standstill)
    IN IF ~l.result THEN NotFinished(l.s)
       ELSE IF l.s.toBeHomed THEN [s |-> l.s, result |-> TRUE]
       ELSE [s |-> SetState([l.s EXCEPT !.toBeHomed = TRUE], gb, "homing1"), result |-> TRUE]

\* found: start.g exists
StartPrinting(s, found) ==
    LET s1 == [s EXCEPT !.gbs[fileGCode].stack[1].fileLive = TRUE, !.isPrinting = TRUE]
    IN DoFileMacro(s1, fileGCode, found, FALSE).s

ActOnCodeOutcomes(s, gb) ==
    LET c == s.gbs[gb].cmd
    IN IF c.code \in {"G1", "G2"}
       THEN LET l == LockMovement(s, gb)
            IN IF ~l.result THEN {NotFinished(s)}
               ELSE IF l.s.moveState.segmentsLeft # 0 THEN {NotFinished(l.s)}
               ELSE {Finish(DoStraightMove(l.s, gb, c, cancelled), gb) : cancelled \in BOOLEAN}
       ELSE IF c.code \in {"G10", "G11"}
       THEN LET r == RetractFilament(s, gb, c.code = "G10")
            IN {IF r.result THEN Finish(r.s, gb) ELSE r}
       ELSE IF c.code = "G28"
       THEN {LET r == DoHome(s, gb, standstill)
             IN IF r.result THEN Finish(r.s, gb) ELSE r
             : standstill \in BOOLEAN}
       ELSE IF c.code = "M98"
       THEN {Finish(DoFileMacro(s, gb, found, TRUE).s, gb) : found \in BOOLEAN}
       ELSE IF c.code = "M32"
       THEN IF s.isPrinting THEN {Finish(s, gb)}
            ELSE {Finish(StartPrinting(s, found), gb) : found \in BOOLEAN}
       ELSE IF c.code = "M25"
       THEN IF ~IsReallyPrinting(s) THEN {Finish(s, gb)}
            ELSE LET l == LockMovement(s, gb)
                 IN IF ~l.result THEN {NotFinished(s)}
                    ELSE {Finish(DoPause(l.s, gb, "pausing1", skipped), gb) : skipped \in BOOLEAN}
       ELSE IF c.code = "M226"
       THEN IF ~IsReallyPrinting(s) THEN {Finish(s, gb)}
            ELSE {LET l == LockMovementAndWaitForStandstill(s, gb, standstill)
                  IN IF ~l.result THEN NotFinished(l.s)
                     ELSE Finish(DoPause(l.s, gb, "pausing1", FALSE), gb)
                  : standstill \in BOOLEAN}
       ELSE IF c.code = "M24"
       THEN IF s.pauseState # "paused" THEN {Finish(s, gb)}
            ELSE {Finish([SetState(s, gb, "resuming1") EXCEPT !.pauseState = "resuming"], gb)}
       ELSE IF c.code = "M0"
       THEN {LET l == LockMovementAndWaitForStandstill(s, gb, standstill)
             IN IF ~l.result THEN NotFinished(l.s)
                ELSE Finish(IF l.s.pauseState = "paused" THEN StopPrint(l.s) ELSE l.s, gb)
             : standstill \in BOOLEAN}
       ELSE {Finish(s, gb)}

\* one step of the state machine of a channel whose state is not normal
RunStateMachineOutcomes(s, gb) ==
    LET st == GetState(s, gb)
        done(x) == UnlockAll(SetState(x, gb, "normal"), gb)
    IN IF st = "waitingForSegmentedMoveToGo"
       THEN IF s.moveState.segMoveState = "active" THEN {s}
            ELSE IF s.moveState.segMoveState = "inactive" THEN {done(s)}
            ELSE {LET l == LockMovementAndWaitForStandstill(s, gb, standstill)
                  IN IF ~l.result THEN l.s ELSE done(l.s)
                  : standstill \in BOOLEAN}
       ELSE IF st = "pausing1"
       THEN {LET l == LockMovementAndWaitForStandstill(s, gb, standstill)
             IN IF ~l.result THEN l.s
                ELSE done(IF l.s.pauseState = "pausing"
                          THEN [l.s EXCEPT !.pauseState = "paused"] ELSE l.s)
             : standstill \in BOOLEAN}
       ELSE IF st = "resuming1"
       THEN {LET l == LockMovementAndWaitForStandstill(s, gb, standstill)
             IN IF ~l.result THEN l.s
                ELSE done(IF l.s.pauseState = "resuming"
                          THEN [l.s EXCEPT !.pauseState = "notPaused"] ELSE l.s)
             : standstill \in BOOLEAN}
       ELSE IF st = "homing1"
       THEN {done([s EXCEPT !.toBeHomed = FALSE])}
       ELSE {done(s)}

\* gb has read a new command from its input
LogFetched(s, gb) == [s EXCEPT !.log.fetched = Append(@, gb)]

\* SetFinished(ActOnCode(gb)) on the command c just read
ExecuteOutcomes(s, gb, c) ==
    {[s |-> o.s, result |-> TRUE] :
        o \in ActOnCodeOutcomes(
                 LogFetched([s EXCEPT !.gbs[gb].buf = "ready", !.gbs[gb].cmd = c], gb), gb)}

\* CheckMetaCommand throws on a command read from the normal input: the error
\* is reported and the command buffer emptied
LiveCommandException(s, gb) ==
    [s |-> LogFetched(BufInit(s, gb), gb), result |-> TRUE, reply |-> "error"]

\* a plausible slip: a command that throws while read from a file is dropped
\* like one read from the normal input
FileCommandExceptionKeepingFile(s, gb) ==
    [s |-> LogFetched(BufInit(s, gb), gb), result |-> TRUE, reply |-> "error"]

\* CheckMetaCommand throws on a command read from a file (or on the last line
\* of the file): the error is reported, the command buffer emptied and the
\* file aborted
FileCommandException(s, gb) ==
    [s |-> LogFetched(AbortPrint(BufInit(s, gb), gb), gb), result |-> TRUE, reply |-> "error"]

\* the file cannot be read
FileReadError(s, gb) == [s |-> AbortPrint(s, gb), result |-> TRUE]

WithoutReply(e) == [s |-> e.s, result |-> e.result]

\* a plausible slip: the locks are released whatever state the channel is back in
FinishMacroAlwaysUnlocking(s, gb) == UnlockAll(BufInit(Pop(s, gb), gb), gb)

\* the macro file has no more data: the frame is popped and, when that leaves
\* the channel in state normal, its locks are released
FinishMacro(s, gb) ==
    LET p == BufInit(Pop(s, gb), gb)
    IN IF GetState(p, gb) = "normal" THEN UnlockAll(p, gb) ELSE p

DoFilePrintOutcomes(s, gb) ==
    \* haveData
    UNION {ExecuteOutcomes(s, gb, c) : c \in FileCommands(s, gb)}
    \cup {WithoutReply(FileCommandException(s, gb))}
    \* error
    \cup {FileReadError(s, gb)}
    \* noData
    \cup (LET b == BufInit(s, gb)
          IN IF ~HasPrevious(b.gbs, gb)
             THEN {LET l == LockMovementAndWaitForStandstill(b, gb, standstill)
                   IN [s |-> IF l.result THEN StopPrint(l.s) ELSE l.s, result |-> TRUE]
                   : standstill \in BOOLEAN}
             ELSE {[s |-> FinishMacro(b, gb), result |-> TRUE]})

\* a plausible slip: a channel that is reading a file reads on before it
\* looks whether its previous command has finished
StartNextGCodeOutcomesReadingOn(s, gb) ==
    IF /\ gb = fileGCode
       /\ \/ s.pauseState \in {"paused", "resuming"}
          \/ (~IsDoingFileMacro(s, gb) /\ s.pauseState = "pausing")
    THEN {[s |-> UnlockAll(s, gb), result |-> FALSE]}
    ELSE IF IsDoingFile(s, gb)
    THEN DoFilePrintOutcomes(s, gb)
    ELSE IF IsReady(s, gb)
    THEN {[s |-> o.s, result |-> TRUE] : o \in ActOnCodeOutcomes(s, gb)}
    ELSE {[s |-> s, result |-> FALSE]}
         \cup {[s |-> LogFetched([s EXCEPT !.gbs[gb].buf = "ready", !.gbs[gb].cmd = c], gb),
                 result |-> FALSE]
               : c \in NormalCommands(gb)}
         \cup {[s |-> LogFetched(s, gb), result |-> TRUE] : c \in NormalCommands(gb)}

StartNextGCodeOutcomes(s, gb) ==
    IF /\ gb = fileGCode
       /\ \/ s.pauseState \in {"paused", "resuming"}
          \/ (~IsDoingFileMacro(s, gb) /\ s.pauseState = "pausing")
    THEN {[s |-> UnlockAll(s, gb), result |-> FALSE]}
    ELSE IF IsReady(s, gb)
    THEN {[s |-> o.s, result |-> TRUE] : o \in ActOnCodeOutcomes(s, gb)}
    ELSE IF IsDoingFile(s, gb)
    THEN DoFilePrintOutcomes(s, gb)
    ELSE IF gb = autoPauseGCode /\ ~LatestMachineState(s.gbs, gb).waitingForAcknowledgement
    THEN {[s |-> s, result |-> FALSE]}
    ELSE \* nothing to read; a command fetched; a meta command completed or threw
         {[s |-> s, result |-> FALSE]}
         \cup {[s |-> LogFetched([s EXCEPT !.gbs[gb].buf = "ready", !.gbs[gb].cmd = c], gb),
                 result |-> FALSE]
               : c \in NormalCommands(gb)}
         \cup {[s |-> LogFetched(s, gb), result |-> TRUE] : c \in NormalCommands(gb)}
         \cup {WithoutReply(LiveCommandException(s, gb)) : c \in NormalCommands(gb)}

FileMacroCyclesReturn(s, gb) ==
    IF IsDoingFileMacro(s, gb) THEN BufInit(Pop(s, gb), gb) ELSE s

\* the message box the channel waited for has been closed
MessageAcknowledged(s, gb) ==
    LET wasCancelled == LatestMachineState(s.gbs, gb).messageCancelled
        p == Pop(s, gb)
    IN [s |-> IF ~wasCancelled THEN p
              ELSE IF ~HasPrevious(p.gbs, gb) THEN StopPrint(p)
              ELSE FileMacroCyclesReturn(p, gb),
        result |-> wasCancelled]

LogServiced(o, gb) ==
    [o EXCEPT !.s.log.serviced = Append(@, [gb |-> gb, result |-> o.result])]

SpinGCodeBufferOutcomes(s, gb) ==
    {LogServiced(o, gb) :
        o \in IF GetState(s, gb) = "normal"
              THEN IF LatestMachineState(s.gbs, gb).messageAcknowledged
                   THEN {MessageAcknowledged(s, gb)}
                   ELSE StartNextGCodeOutcomes(s, gb)
              ELSE {[s |-> x, result |-> TRUE] : x \in RunStateMachineOutcomes(s, gb)}}

(***************************************************************************)
(* The scheduler.                                                          *)
(***************************************************************************)
\* the round-robin scan of Spin; original is the cursor the scan started at
RECURSIVE ScanOutcomes(_, _)
\* a scan that leaves the cursor on the channel that did useful work
ScanOutcomesRevisiting(s, original) ==
    LET gbp == gcodeSources[s.nextGcodeSource + 1]
        next == IF s.nextGcodeSource + 1 = NumSources - 1 THEN 0 ELSE s.nextGcodeSource + 1
        s1 == [s EXCEPT !.nextGcodeSource = next]
    IN UNION {IF o.result THEN {[o.s EXCEPT !.nextGcodeSource = s.nextGcodeSource]}
              ELSE IF next = original THEN {o.s} ELSE ScanOutcomes(o.s, original)
              : o \in SpinGCodeBufferOutcomes(s1, gbp)}

\* a plausible slip: the scan wraps after the last source, the auto-pause
\* channel, instead of before it
ScanOutcomesOverAllSources(s, original) ==
    LET gbp == gcodeSources[s.nextGcodeSource + 1]
        next == IF s.nextGcodeSource + 1 = NumSources THEN 0 ELSE s.nextGcodeSource + 1
        s1 == [s EXCEPT !.nextGcodeSource = next]
    IN UNION {IF o.result \/ next = original THEN {o.s} ELSE ScanOutcomes(o.s, original)
              : o \in SpinGCodeBufferOutcomes(s1, gbp)}

\* a scan that starts again at the first channel after a channel did useful
\* work
ScanOutcomesRewinding(s, original) ==
    LET gbp == gcodeSources[s.nextGcodeSource + 1]
        next == IF s.nextGcodeSource + 1 = NumSources - 1 THEN 0 ELSE s.nextGcodeSource + 1
        s1 == [s EXCEPT !.nextGcodeSource = next]
    IN UNION {IF o.result THEN {[o.s EXCEPT !.nextGcodeSource = 0]}
              ELSE IF next = original THEN {o.s} ELSE ScanOutcomes(o.s, original)
              : o \in SpinGCodeBufferOutcomes(s1, gbp)}

\* a scan that passes over the channel after the one that did useful work
ScanOutcomesSkippingNext(s, original) ==
    LET gbp == gcodeSources[s.nextGcodeSource + 1]
        next == IF s.nextGcodeSource + 1 = NumSources - 1 THEN 0 ELSE s.nextGcodeSource + 1
        s1 == [s EXCEPT !.nextGcodeSource = next]
    IN UNION {IF o.result
              THEN {[o.s EXCEPT !.nextGcodeSource = IF next + 1 = NumSources - 1 THEN 0
                                                    ELSE next + 1]}
              ELSE IF next = original THEN {o.s} ELSE ScanOutcomes(o.s, original)
              : o \in SpinGCodeBufferOutcomes(s1, gbp)}

\* the round-robin scan of Spin, from the cursor, until a channel does
\* something useful or the cursor is back where the scan started
ScanOutcomes(s, original) ==
    LET gbp == gcodeSources[s.nextGcodeSource + 1]
        next == IF s.nextGcodeSource + 1 = NumSources - 1 THEN 0 ELSE s.nextGcodeSource + 1
        s1 == [s EXCEPT !.nextGcodeSource = next]
    IN UNION {IF o.result \/ next = original THEN {o.s} ELSE ScanOutcomes(o.s, original)
              : o \in SpinGCodeBufferOutcomes(s1, gbp)}

\* Spin when no emergency stop has been commanded
SpinOutcomes(s) ==
    UNION {UNION {ScanOutcomes(a.s, a.s.nextGcodeSource)
                  : a \in SpinGCodeBufferOutcomes(t, autoPauseGCode)}
           : t \in {CheckTriggers(s, fired, movesSkipped, found)
                    : fired \in SUBSET SpinTriggers,
                      movesSkipped \in BOOLEAN, found \in BOOLEAN}}

\* a plausible slip: the auto-pause channel is still given its quantum after
\* the commanded emergency stop
SpinResultsServicingAfterStop(s, commanded) ==
    IF commanded
    THEN {[s |-> a.s, commanded |-> FALSE]
          : a \in SpinGCodeBufferOutcomes(DoEmergencyStop(s), autoPauseGCode)}
    ELSE {[s |-> o, commanded |-> FALSE] : o \in SpinOutcomes(s)}

\* one call of Spin; commanded is the flag emergencyStopCommanded, which the
\* call reads and leaves as given in the result
SpinResults(s, commanded) ==
    IF commanded
    THEN {[s |-> DoEmergencyStop(s), commanded |-> FALSE]}
    ELSE {[s |-> o, commanded |-> FALSE] : o \in SpinOutcomes(s)}

(***************************************************************************)
(* Restore points.  One axis stands for the visible axes, initialUserC0    *)
(* for the two arc-centre coordinates.                                     *)
(***************************************************************************)
\* the channels whose feed rate is followed
PosChannels == {fileGCode, "HTTP"}

\* RestorePosition called with a null channel pointer
NoChannel == "nullptr"

NoTool == -1

InitialRestorePoint ==
    [moveCoords |-> 0, feedRate |-> 1, toolNumber |-> NoTool, initialUserC0 |-> 0]

\* nothing saved yet
NotSaved == [valid |-> FALSE, gb |-> NoChannel, coords |-> 0, feed |-> 1, tool |-> NoTool,
             changed |-> FALSE]

\* moveFeedRate is moveState.feedRate, the feed rate of the move set up last;
\* atSave records what was active when SavePosition was last called, and
\* whether anything has changed since; restoredTo the channel handed to the
\* last RestorePosition
InitialPosition ==
    [currentUserPosition |-> 0, feedRate |-> [gb \in PosChannels |-> 1],
     moveFeedRate |-> 1,
     currentTool |-> NoTool, initialUserC0 |-> 0, rp |-> InitialRestorePoint,
     atSave |-> NotSaved, restoredTo |-> NoChannel]

SavePosition(p, gb) ==
    [p EXCEPT !.rp.moveCoords = p.currentUserPosition,
              !.rp.feedRate = p.feedRate[gb],
              !.rp.toolNumber = p.currentTool]

\* a plausible slip: the feed rate is left as it is
RestorePositionKeepingFeedRate(p, gb) ==
    [p EXCEPT !.currentUserPosition = p.rp.moveCoords,
              !.initialUserC0 = p.rp.initialUserC0]

RestorePosition(p, gb) ==
    LET q == [p EXCEPT !.currentUserPosition = p.rp.moveCoords,
                       !.initialUserC0 = p.rp.initialUserC0]
    IN IF gb = NoChannel THEN q ELSE [q EXCEPT !.feedRate[gb] = p.rp.feedRate]

(***************************************************************************)
(* Pausing and the restore point.  The operators below give what DoPause   *)
(* and DoEmergencyPause do to the user position and to pauseRestorePoint;  *)
(* s is the state they are called in.  The motion system answers with      *)
(* stop, the machine coordinate at which the motion stops.                 *)
(***************************************************************************)
\* Tool::GetOffset of the one axis, no tool selected: no offset
GetOffset(tool) == IF tool = NoTool THEN 0 ELSE tool + 1

\* user coordinates to machine coordinates and back (scale factor 1, no baby
\* stepping, no Z hop)
ToolOffsetTransform(coord, tool) == coord - GetOffset(tool)

ToolOffsetInverseTransform(coord, tool) == coord + GetOffset(tool)

StopAnswers == 0..MaxCoord

\* a plausible slip: the coordinates the motion system returned are left
\* in the restore point as they are
DoPauseRestorePointAsReturned(p, s, gb, movesSkipped, stop) ==
    LET q == IF gb = fileGCode THEN SavePosition(p, gb)
             ELSE LET r0 == [p EXCEPT !.rp.feedRate = p.feedRate[fileGCode],
                                      !.rp.moveCoords = stop]
                  IN IF movesSkipped
                     THEN [r0 EXCEPT !.currentUserPosition =
                                ToolOffsetInverseTransform(r0.rp.moveCoords, p.currentTool)]
                     ELSE IF s.moveState.segmentsLeft # 0
                     THEN [r0 EXCEPT !.rp.feedRate = p.moveFeedRate,
                                     !.rp.initialUserC0 = p.initialUserC0,
                                     !.currentUserPosition =
                                         ToolOffsetInverseTransform(r0.rp.moveCoords, p.currentTool)]
                     ELSE r0
    IN [q EXCEPT !.rp.toolNumber = p.currentTool]

\* DoPause: Move::PausePrint writes the machine coordinates of the stop into
\* the restore point whether or not it could skip moves
DoPauseRestorePoint(p, s, gb, movesSkipped, stop) ==
    LET q == IF gb = fileGCode THEN SavePosition(p, gb)
             ELSE LET r0 == [p EXCEPT !.rp.feedRate = p.feedRate[fileGCode],
                                      !.rp.moveCoords = stop]
                      r1 == IF movesSkipped
                            THEN [r0 EXCEPT !.currentUserPosition =
                                       ToolOffsetInverseTransform(r0.rp.moveCoords, p.currentTool)]
                            ELSE IF s.moveState.segmentsLeft # 0
                            THEN [r0 EXCEPT !.rp.feedRate = p.moveFeedRate,
                                            !.rp.initialUserC0 = p.initialUserC0,
                                            !.currentUserPosition =
                                                ToolOffsetInverseTransform(r0.rp.moveCoords,
                                                                           p.currentTool)]
                            ELSE r0
                  IN [r1 EXCEPT !.rp.moveCoords = r1.currentUserPosition]
    IN [q EXCEPT !.rp.toolNumber = p.currentTool]

\* DoEmergencyPause: stop is the coordinate returned by
\* Move::LowPowerOrStallPause when moves were skipped, and otherwise
\* moveState.initialCoords of the waiting move
DoEmergencyPauseRestorePoint(p, s, movesSkipped, stop) ==
    IF ~IsCompletelyIdle(s, autoPauseGCode) THEN p
    ELSE LET r1 == IF movesSkipped
                   THEN [p EXCEPT !.rp.moveCoords = stop,
                                  !.currentUserPosition =
                                      ToolOffsetInverseTransform(stop, p.currentTool)]
                   ELSE IF s.moveState.segmentsLeft # 0 /\ s.moveState.filePos # noFilePosition
                   THEN [p EXCEPT !.currentUserPosition =
                                      ToolOffsetInverseTransform(stop, p.currentTool),
                                  !.rp.feedRate = p.moveFeedRate,
                                  !.rp.initialUserC0 = p.initialUserC0]
                   ELSE [p EXCEPT !.rp.feedRate = p.feedRate[fileGCode]]
         IN [r1 EXCEPT !.rp.moveCoords = r1.currentUserPosition,
                       !.rp.toolNumber = p.currentTool]

(***************************************************************************)
(* Initial state: the state GCodes::Init leaves after calling Reset.       *)
(***************************************************************************)
Init ==
    /\ gbs = [gb \in Channels |-> InitialBuffer]
    /\ resourceOwners = [r \in Resources |-> NoOwner]
    /\ toBeHomed = FALSE
    /\ pauseState = "notPaused"
    /\ isPrinting = FALSE
    /\ triggersPending = {}
    /\ nextGcodeSource = 0
    /\ moveState = InitialMoveState
    /\ codeQueue = {}
    /\ position = InitialPosition
    /\ calledIn = NoCall
    /\ pull = NoPull
    /\ reading = NotReading
    /\ files = InitialFiles
    /\ waited = NotWaited
    /\ words = NoWords
    /\ emergencyStopCommanded = FALSE
    /\ build = IdleBuild
    /\ lastRead = NoRead
    /\ granted = [r \in Resources |-> {}]
    /\ cycle = EmptyLog
    /\ lastOp = NoOp

(***************************************************************************)
(* The actions of SpecMove.                                                *)
(***************************************************************************)
Builders == {"HTTP", fileGCode}

mainGhosts == <<position, calledIn, pull, words, reading, files, waited, granted, cycle, lastOp>>

\* the channel has the Movement lock and the previous move has gone
\* (RetractFilament checks this itself, DoStraightMove and DoArcMove require it)
StartBuild(gb, c, cancelled) ==
    LET res == LockMovement(cur, gb)
    IN /\ build.phase = "idle"
       /\ res.result
       /\ moveState.segmentsLeft = 0
       /\ Set(res.s)
       /\ build' = [phase |-> "body", gb |-> gb, cmd |-> c, cancelled |-> cancelled,
                    todo |-> BodyStores(c, gb),
                    intended |-> MoveFields(MoveOf(moveState, c, gb, cancelled))]
       /\ UNCHANGED <<emergencyStopCommanded, lastRead, mainGhosts>>

BuildStore ==
    /\ build.phase # "idle"
    /\ build.todo # <<>>
    /\ moveState' = ApplyStore(moveState, Head(build.todo))
    /\ build' = [build EXCEPT !.todo = Tail(@)]
    /\ UNCHANGED <<gbs, resourceOwners, toBeHomed, pauseState, isPrinting, triggersPending,
                   nextGcodeSource, codeQueue, emergencyStopCommanded, lastRead, mainGhosts>>

EnterFinaliseMove ==
    /\ build.phase = "body"
    /\ build.todo = <<>>
    /\ CallsFinaliseMove(build.cmd)
    /\ build' = [build EXCEPT !.phase = "finalise",
                              !.todo = FinaliseMoveStores(moveState, build.gb, build.cancelled)]
    /\ UNCHANGED <<gbs, resourceOwners, toBeHomed, pauseState, isPrinting, triggersPending,
                   nextGcodeSource, moveState, codeQueue, emergencyStopCommanded, lastRead,
                   mainGhosts>>

\* the command is over: DoStraightMove and DoArcMove release the locks
\* themselves, a finished G10 has them released with its reply
EndBuild ==
    /\ build.phase # "idle"
    /\ build.todo = <<>>
    /\ build.phase = "finalise" \/ ~CallsFinaliseMove(build.cmd)
    /\ Set(UnlockAll(cur, build.gb))
    /\ build' = [build EXCEPT !.phase = "idle"]
    /\ UNCHANGED <<emergencyStopCommanded, lastRead, mainGhosts>>

ConsumerReadMove(limitOk) ==
    /\ Set(ReadMove(cur, limitOk))
    /\ lastRead' = IF moveState.segmentsLeft = 0 THEN lastRead
                   ELSE [taken |-> TRUE, m |-> MoveFields(moveState),
                         intended |-> build.intended]
    /\ UNCHANGED <<emergencyStopCommanded, build, mainGhosts>>

NextMove ==
    \/ \E gb \in Builders, c \in MoveCommands, cancelled \in BOOLEAN : StartBuild(gb, c, cancelled)
    \/ BuildStore
    \/ EnterFinaliseMove
    \/ EndBuild
    \/ \E limitOk \in BOOLEAN : ConsumerReadMove(limitOk)

SpecMove == Init /\ [][NextMove]_vars

(***************************************************************************)
(* The lock interface called directly by the channels.                     *)
(***************************************************************************)
\* the variables the lock interface never writes
ghostVars == <<position, calledIn, pull, words, reading, files, waited, emergencyStopCommanded, build, lastRead, cycle>>

otherVars == <<pauseState, isPrinting, triggersPending, nextGcodeSource, moveState,
               codeQueue, position, calledIn, pull, words, reading, files, waited,
               emergencyStopCommanded, build, lastRead,
               cycle>>

\* what a call that released the resources rel of gb does to the grant record
Released(gb, rel) == [r \in Resources |-> IF r \in rel THEN granted[r] \ {gb} ELSE granted[r]]

CallLockResource(gb, r) ==
    LET res == LockResource(cur, gb, r)
    IN /\ Set(res.s)
       /\ granted' = IF res.result THEN [granted EXCEPT ![r] = @ \cup {gb}] ELSE granted
       /\ lastOp' = Op("LockResource", res.result)
       /\ UNCHANGED ghostVars

\* GrabMovement is only ever called for the auto-pause channel (DoEmergencyPause)
CallGrabMovement ==
    /\ Set(GrabMovement(cur, autoPauseGCode))
    /\ granted' = [granted EXCEPT ![MoveResource] = {autoPauseGCode}]
    /\ lastOp' = Op("GrabResource", GrabMovement(cur, autoPauseGCode) # cur)
    /\ UNCHANGED ghostVars

CallUnlockResource(gb, r) ==
    /\ Set(UnlockResource(cur, gb, r))
    /\ granted' = Released(gb, IF resourceOwners[r] = gb THEN {r} ELSE {})
    /\ lastOp' = Op("UnlockResource", UnlockResource(cur, gb, r) # cur)
    /\ UNCHANGED ghostVars

CallUnlockAll(gb) ==
    /\ Set(UnlockAll(cur, gb))
    /\ granted' = Released(gb, ResourcesToRelease(cur, gb))
    /\ lastOp' = Op("UnlockAll", UnlockAll(cur, gb) # cur)
    /\ UNCHANGED ghostVars

CallPushState(gb) ==
    LET res == PushState(gbs, gb)
    IN /\ gbs' = res.g
       /\ lastOp' = Op("PushState", res.ok)
       /\ UNCHANGED <<resourceOwners, toBeHomed, granted>>
       /\ UNCHANGED otherVars

CallPopState(gb) ==
    LET res == PopState(gbs, gb)
    IN /\ gbs' = res.g
       /\ lastOp' = Op("PopState", res.ok)
       /\ UNCHANGED <<resourceOwners, toBeHomed, granted>>
       /\ UNCHANGED otherVars

\* the channels that call the lock interface in SpecLock
LockCallers == {fileGCode, autoPauseGCode}

NextLock ==
    \/ \E gb \in LockCallers, r \in Resources : CallLockResource(gb, r)
    \/ CallGrabMovement
    \/ \E gb \in LockCallers, r \in Resources : CallUnlockResource(gb, r)
    \/ \E gb \in LockCallers : CallUnlockAll(gb)
    \/ \E gb \in LockCallers : CallPushState(gb)
    \/ \E gb \in LockCallers : CallPopState(gb)

SpecLock == Init /\ [][NextLock]_vars

(***************************************************************************)
(* Spec: the engine as the main loop drives it.  Each step is one call of  *)
(* Spin, an emergency stop commanded at interrupt level, a poll of the     *)
(* motion consumer, or a low-voltage indication from the platform.         *)
(***************************************************************************)
moveGhosts == <<position, calledIn, pull, words, reading, files, waited, build, lastRead, granted>>

Spin ==
    /\ \E r \in SpinResults(cur, emergencyStopCommanded) :
          /\ Set(r.s)
          /\ cycle' = Kept(r.s.log, nextGcodeSource)
          /\ emergencyStopCommanded' = r.commanded
    /\ UNCHANGED lastOp
    /\ UNCHANGED moveGhosts

CommandEmergencyStop ==
    /\ ~emergencyStopCommanded
    /\ emergencyStopCommanded' = TRUE
    /\ UNCHANGED lastOp
    /\ UNCHANGED <<gbs, resourceOwners, toBeHomed, pauseState, isPrinting, triggersPending,
                   nextGcodeSource, moveState, codeQueue, cycle, moveGhosts>>

MoveReadMove(limitOk) ==
    /\ moveState.segmentsLeft > 0
    /\ Set(ReadMove(cur, limitOk))
    /\ UNCHANGED lastOp
    /\ UNCHANGED <<emergencyStopCommanded, cycle, moveGhosts>>

PowerFail(movesSkipped) ==
    /\ LowVoltagePause(cur, movesSkipped) # cur
    /\ Set(LowVoltagePause(cur, movesSkipped))
    /\ UNCHANGED lastOp
    /\ UNCHANGED <<emergencyStopCommanded, cycle, moveGhosts>>

Next ==
    \/ Spin
    \/ CommandEmergencyStop
    \/ \E limitOk \in BOOLEAN : MoveReadMove(limitOk)
    \/ \E movesSkipped \in BOOLEAN : PowerFail(movesSkipped)

Spec == Init /\ [][Next]_vars

(***************************************************************************)
(* SpecTrig: the trigger poll with every trigger number configured, in an  *)
(* environment that starts and stops a print, lets another channel take    *)
(* and release the Movement resource, runs the trigger channel and lets    *)
(* the motion consumer take the moves the trigger macro publishes.         *)
(***************************************************************************)
trigGhosts == <<position, calledIn, pull, words, reading, files, waited, emergencyStopCommanded, build, lastRead, granted,
                lastOp>>

TrigPoll(fired, movesSkipped, found) ==
    /\ Set(CheckTriggers(cur, fired, movesSkipped, found))
    /\ cycle' = Kept(CheckTriggers(cur, fired, movesSkipped, found).log, 0)
    /\ UNCHANGED trigGhosts

TrigService ==
    /\ \E o \in SpinGCodeBufferOutcomes(cur, triggerGCode) :
          /\ Set(o.s)
          /\ cycle' = Kept(o.s.log, 0)
    /\ UNCHANGED trigGhosts

TrigStartPrint ==
    /\ ~isPrinting
    /\ Set(StartPrinting(cur, FALSE))
    /\ cycle' = EmptyLog
    /\ UNCHANGED trigGhosts

TrigStopPrint ==
    /\ isPrinting
    /\ Set(StopPrint(cur))
    /\ cycle' = EmptyLog
    /\ UNCHANGED trigGhosts

TrigOtherLocks ==
    /\ LockMovement(cur, "HTTP").result
    /\ resourceOwners[MoveResource] # "HTTP"
    /\ Set(LockMovement(cur, "HTTP").s)
    /\ cycle' = EmptyLog
    /\ UNCHANGED trigGhosts

TrigOtherUnlocks ==
    /\ resourceOwners[MoveResource] = "HTTP"
    /\ Set(UnlockAll(cur, "HTTP"))
    /\ cycle' = EmptyLog
    /\ UNCHANGED trigGhosts

TrigReadMove ==
    /\ moveState.segmentsLeft > 0
    /\ Set(ReadMove(cur, TRUE))
    /\ cycle' = EmptyLog
    /\ UNCHANGED trigGhosts

NextTrig ==
    \/ \E fired \in SUBSET TriggerNumbers, movesSkipped \in BOOLEAN, found \in BOOLEAN :
          TrigPoll(fired, movesSkipped, found)
    \/ TrigService
    \/ TrigStartPrint
    \/ TrigStopPrint
    \/ TrigOtherLocks
    \/ TrigOtherUnlocks
    \/ TrigReadMove

SpecTrig == Init /\ [][NextTrig]_vars

(***************************************************************************)
(* SpecErr: two channels, HTTP and the file channel, run commands, macros  *)
(* and message boxes; commands throw, files fail to read, message boxes    *)
(* are cancelled, commands are deferred behind moves, and the emergency    *)
(* stop is performed.                                                      *)
(***************************************************************************)
ErrChannels == {"HTTP", fileGCode}

\* the commands the HTTP channel is sent: a move and homing
ErrCommands == {G1(1), G28}

errGhosts == <<position, pull, words, reading, files, waited, emergencyStopCommanded, build, lastRead, granted, cycle>>

\* what is kept of the state an operation was called in
Called(gb) ==
    [gb |-> gb,
     s |-> [gbs |-> gbs, resourceOwners |-> resourceOwners,
            segmentsLeft |-> moveState.segmentsLeft, codeQueue |-> codeQueue,
            pauseState |-> pauseState]]

\* StartNextGCode of gb is about to read a command
Fetches(s, gb) ==
    /\ GetState(s, gb) = "normal"
    /\ ~LatestMachineState(s.gbs, gb).messageAcknowledged
    /\ ~(/\ gb = fileGCode
          /\ \/ s.pauseState \in {"paused", "resuming"}
             \/ (~IsDoingFileMacro(s, gb) /\ s.pauseState = "pausing"))
    /\ ~IsReady(s, gb)
    /\ IsDoingFile(s, gb) \/ NormalCommands(gb) # {}

\* the print is started (M32 from another channel)
ErrStartPrint(found) ==
    /\ ~isPrinting
    /\ ~IsDoingFile(cur, fileGCode)
    /\ Set(StartPrinting(cur, found))
    /\ lastOp' = Op("run", TRUE)
    /\ calledIn' = NoCall
    /\ UNCHANGED errGhosts

\* gb is given a quantum and does not read its normal input
ErrService(gb) ==
    /\ ~(Fetches(cur, gb) /\ ~IsDoingFile(cur, gb))
    /\ \E o \in SpinGCodeBufferOutcomes(cur, gb) : Set(Program(o.s))
    /\ lastOp' = Op("run", TRUE)
    /\ calledIn' = NoCall
    /\ UNCHANGED errGhosts

\* gb reads command c from its normal input and executes it
ErrExecute(gb, c) ==
    /\ Fetches(cur, gb) /\ ~IsDoingFile(cur, gb)
    /\ \E o \in ExecuteOutcomes(cur, gb, c) : Set(o.s)
    /\ lastOp' = Op("run", TRUE)
    /\ calledIn' = NoCall
    /\ UNCHANGED errGhosts

ErrException(gb) ==
    LET e == IF IsDoingFile(cur, gb) THEN FileCommandException(cur, gb)
             ELSE LiveCommandException(cur, gb)
    IN /\ Fetches(cur, gb)
       /\ Set(e.s)
       /\ lastOp' = Op("exception", e.reply = "error" /\ e.s.log.fetched = <<gb>>)
       /\ calledIn' = Called(gb)
       /\ UNCHANGED errGhosts

ErrReadError(gb) ==
    /\ Fetches(cur, gb)
    /\ IsDoingFile(cur, gb)
    /\ Set(FileReadError(cur, gb).s)
    /\ lastOp' = Op("readError", TRUE)
    /\ calledIn' = Called(gb)
    /\ UNCHANGED errGhosts

\* a command read by gb, or a stage of its state machine, runs a macro file
ErrDoFileMacro(gb, found) ==
    LET r == DoFileMacro(cur, gb, found, TRUE)
    IN /\ GetState(cur, gb) # "normal" \/ Fetches(cur, gb)
       /\ Set(r.s)
       /\ lastOp' = Op("DoFileMacro", r.result)
       /\ calledIn' = Called(gb)
       /\ UNCHANGED errGhosts

\* a command read by gb opens a message box and waits for it to be closed
ErrWaitForAcknowledgement(gb) ==
    LET p == Push(cur, gb)
    IN /\ Fetches(cur, gb)
       /\ Set(IF ~p.result THEN p.s
              ELSE [p.s EXCEPT !.gbs = SetLatest(@, gb,
                        [LatestMachineState(@, gb) EXCEPT !.waitingForAcknowledgement = TRUE])])
       /\ lastOp' = Op("WaitForAcknowledgement", p.result)
       /\ calledIn' = Called(gb)
       /\ UNCHANGED errGhosts

\* the user closes the message box
ErrCloseMessageBox(gb, cancelled) ==
    /\ LatestMachineState(gbs, gb).waitingForAcknowledgement
    /\ Set([cur EXCEPT !.gbs = SetLatest(@, gb,
                [LatestMachineState(@, gb) EXCEPT !.waitingForAcknowledgement = FALSE,
                                                  !.messageAcknowledged = TRUE,
                                                  !.messageCancelled = cancelled])])
    /\ lastOp' = Op("run", TRUE)
    /\ calledIn' = NoCall
    /\ UNCHANGED errGhosts

\* gb is given a quantum after its message box was closed
ErrMessageAcknowledged(gb) ==
    LET r == MessageAcknowledged(cur, gb)
    IN /\ GetState(cur, gb) = "normal"
       /\ LatestMachineState(gbs, gb).messageAcknowledged
       /\ Set(r.s)
       /\ lastOp' = Op("MessageAcknowledged", r.result)
       /\ calledIn' = Called(gb)
       /\ UNCHANGED errGhosts

\* a command of gb is deferred until the moves ahead of it have been made
ErrQueueCode(gb) ==
    /\ gb \notin codeQueue
    /\ Set([cur EXCEPT !.codeQueue = @ \cup {gb}])
    /\ lastOp' = Op("run", TRUE)
    /\ calledIn' = NoCall
    /\ UNCHANGED errGhosts

ErrReadMove ==
    /\ moveState.segmentsLeft > 0
    /\ Set(ReadMove(cur, TRUE))
    /\ lastOp' = Op("run", TRUE)
    /\ calledIn' = NoCall
    /\ UNCHANGED errGhosts

ErrEmergencyStop ==
    /\ Set(Program(DoEmergencyStop(cur)))
    /\ lastOp' = Op("DoEmergencyStop", TRUE)
    /\ calledIn' = Called("none")
    /\ UNCHANGED errGhosts

NextErr ==
    \/ \E found \in BOOLEAN : ErrStartPrint(found)
    \/ \E gb \in ErrChannels : ErrService(gb)
    \/ \E gb \in ErrChannels, c \in ErrCommands : ErrExecute(gb, c)
    \/ \E gb \in ErrChannels : ErrException(gb)
    \/ \E gb \in ErrChannels : ErrReadError(gb)
    \/ \E gb \in ErrChannels, found \in BOOLEAN : ErrDoFileMacro(gb, found)
    \/ \E gb \in ErrChannels : ErrWaitForAcknowledgement(gb)
    \/ \E gb \in ErrChannels, cancelled \in BOOLEAN : ErrCloseMessageBox(gb, cancelled)
    \/ \E gb \in ErrChannels : ErrMessageAcknowledged(gb)
    \/ \E gb \in ErrChannels : ErrQueueCode(gb)
    \/ ErrReadMove
    \/ ErrEmergencyStop

SpecErr == Init /\ [][NextErr]_vars

(***************************************************************************)
(* SpecPos: a restore point is saved and restored while moves, feed-rate   *)
(* words and tool changes go on in between.                                *)
(***************************************************************************)
posOthers == <<gbs, resourceOwners, toBeHomed, pauseState, isPrinting, triggersPending,
               nextGcodeSource, moveState, codeQueue, calledIn, pull, words, reading, files, waited,
               emergencyStopCommanded,
               build, lastRead, granted, cycle>>

\* a move ends at c (an arc with centre coordinate u)
PosMove(c, u) ==
    /\ <<c, u>> # <<position.currentUserPosition, position.initialUserC0>>
    /\ position' = [position EXCEPT !.currentUserPosition = c, !.initialUserC0 = u,
                                    !.atSave.changed = TRUE]
    /\ lastOp' = Op("move", TRUE)
    /\ UNCHANGED posOthers

\* a command on channel gb carries the feed rate f
PosFeedRate(gb, f) ==
    /\ f # position.feedRate[gb]
    /\ position' = [position EXCEPT !.feedRate[gb] = f, !.atSave.changed = TRUE]
    /\ lastOp' = Op("feedRate", TRUE)
    /\ UNCHANGED posOthers

\* tool number tool is selected
PosSelectTool(tool) ==
    /\ tool # position.currentTool
    /\ position' = [position EXCEPT !.currentTool = tool, !.atSave.changed = TRUE]
    /\ lastOp' = Op("selectTool", TRUE)
    /\ UNCHANGED posOthers

PosSavePosition(gb) ==
    /\ position' = [SavePosition(position, gb) EXCEPT
                       !.atSave = [valid |-> TRUE, gb |-> gb,
                                   coords |-> position.currentUserPosition,
                                   feed |-> position.feedRate[gb],
                                   tool |-> position.currentTool, changed |-> FALSE]]
    /\ lastOp' = Op("SavePosition", TRUE)
    /\ UNCHANGED posOthers

\* lastOp.result: a channel was handed over
PosRestorePosition(gb) ==
    /\ position' = [RestorePosition(position, gb) EXCEPT !.restoredTo = gb]
    /\ lastOp' = Op("RestorePosition", gb # NoChannel)
    /\ UNCHANGED posOthers

NextPos ==
    \/ \E c \in 0..MaxCoord, u \in 0..MaxCoord : PosMove(c, u)
    \/ \E gb \in PosChannels, f \in 1..MaxFeed : PosFeedRate(gb, f)
    \/ \E tool \in NoTool..MaxTool : PosSelectTool(tool)
    \/ \E gb \in PosChannels : PosSavePosition(gb)
    \/ \E gb \in PosChannels \cup {NoChannel} : PosRestorePosition(gb)

SpecPos == Init /\ [][NextPos]_vars

(***************************************************************************)
(* SpecRead: moves are published one at a time, whole or resumed part way  *)
(* through, and the motion consumer pulls their segments.                  *)
(***************************************************************************)
readOthers == <<gbs, resourceOwners, toBeHomed, pauseState, isPrinting, triggersPending,
                nextGcodeSource, codeQueue, position, calledIn, words, reading, files, waited,
               emergencyStopCommanded,
                build, lastRead, granted, cycle>>

\* FinaliseMove on the move of command c read by gb; startAt is
\* segmentsLeftToStartAt: the number of segments of c when nothing is to be
\* skipped, fewer when the print is resumed inside this move; cancelled: the
\* object being printed is cancelled and the move is not published
ReadPublish(gb, c, startAt, cancelled) ==
    /\ moveState.segmentsLeft = 0
    /\ CallsFinaliseMove(c)
    /\ startAt \in 1..c.n
    /\ moveState' = MoveOf(moveState, c, gb, cancelled)
    /\ pull' = IF cancelled THEN pull
               ELSE [segmentsLeftToStartAt |-> startAt, n |-> c.n, reads |-> 0,
                     failed |-> FALSE, cleared |-> FALSE]
    /\ lastOp' = Op("FinaliseMove", ~cancelled)
    /\ UNCHANGED readOthers

\* a retraction is published with NewSingleSegmentMoveAvailable, which leaves
\* segmentsLeftToStartAt as it is
ReadPublishSingle(gb, c) ==
    /\ moveState.segmentsLeft = 0
    /\ ~CallsFinaliseMove(c)
    /\ moveState' = MoveOf(moveState, c, gb, FALSE)
    /\ pull' = [pull EXCEPT !.n = 1, !.reads = 0, !.failed = FALSE, !.cleared = FALSE]
    /\ lastOp' = Op("NewSingleSegmentMoveAvailable", TRUE)
    /\ UNCHANGED readOthers

\* the motion consumer calls ReadMove
ReadReadMove(limitOk) ==
    LET r == ReadMoveFrom(moveState, pull.segmentsLeftToStartAt, limitOk)
    IN /\ moveState' = r.m
       /\ pull' = [pull EXCEPT !.reads = IF r.result THEN @ + 1 ELSE @,
                               !.failed = @ \/ r.m.segMoveState = "aborted"]
       /\ lastOp' = Op("ReadMove", r.result)
       /\ UNCHANGED readOthers

\* a pause or an abort withdraws what is left of the move
ReadClearMove ==
    /\ moveState.segmentsLeft > 0
    /\ moveState' = ClearMove(cur).moveState
    /\ pull' = [pull EXCEPT !.cleared = TRUE]
    /\ lastOp' = Op("ClearMove", TRUE)
    /\ UNCHANGED readOthers

NextRead ==
    \/ \E gb \in Builders, c \in MoveCommands, startAt \in 1..MaxSegments, cancelled \in BOOLEAN :
          ReadPublish(gb, c, startAt, cancelled)
    \/ \E gb \in Builders, c \in MoveCommands : ReadPublishSingle(gb, c)
    \/ \E limitOk \in BOOLEAN : ReadReadMove(limitOk)
    \/ ReadClearMove

SpecRead == Init /\ [][NextRead]_vars

(***************************************************************************)
(* SpecGeom: a channel reads one G0/G1 or G2/G3 with given words and       *)
(* executes it; the motion consumer takes the segments of the move.        *)
(***************************************************************************)
geomOthers == <<position, pull, words, reading, files, waited, emergencyStopCommanded, build, lastRead, granted, cycle>>

InitGeom ==
    /\ gbs = [gb \in Channels |-> InitialBuffer]
    /\ resourceOwners = [r \in Resources |-> NoOwner]
    /\ toBeHomed = FALSE
    /\ pauseState = "notPaused"
    /\ isPrinting = FALSE
    /\ triggersPending = {}
    /\ nextGcodeSource = 0
    /\ moveState = InitialMoveState
    /\ codeQueue = {}
    /\ position = InitialPosition
    /\ calledIn = NoCall
    /\ pull = NoPull
    /\ reading = NotReading
    /\ files = InitialFiles
    /\ waited = NotWaited
    /\ words \in StraightWords \cup ArcWords
    /\ emergencyStopCommanded = FALSE
    /\ build = IdleBuild
    /\ lastRead = NoRead
    /\ granted = [r \in Resources |-> {}]
    /\ cycle = EmptyLog
    /\ lastOp = NoOp

\* what is kept of a return of DoStraightMove or DoArcMove: the error, the
\* centre of the arc, the move buffer, and the moves it announced
Returned(gb, r, centre) ==
    [gb |-> gb,
     s |-> [err |-> r.err, centre |-> centre, moveState |-> r.s.moveState,
            published |-> r.s.log.published]]

\* gb executes the G0/G1: it takes the Movement lock, sees no move waiting,
\* calls DoStraightMove and replies
GeomDoStraightMove(gb) ==
    LET l == LockMovement(cur, gb)
        r == DoStraightMoveWords(l.s, gb, words)
    IN /\ words.code = "G1"
       /\ lastOp = NoOp
       /\ l.result
       /\ l.s.moveState.segmentsLeft = 0
       /\ Set(Finish(r.s, gb).s)
       /\ lastOp' = Op("DoStraightMove", r.result)
       /\ calledIn' = Returned(gb, r, CentreError(noError))
       /\ UNCHANGED geomOthers

GeomDoArcMove(gb) ==
    LET l == LockMovement(cur, gb)
        r == DoArcMoveWords(l.s, gb, words)
    IN /\ words.code = "G2"
       /\ lastOp = NoOp
       /\ l.result
       /\ l.s.moveState.segmentsLeft = 0
       /\ Set(Finish(r.s, gb).s)
       /\ lastOp' = Op("DoArcMove", r.result)
       /\ calledIn' = Returned(gb, r, r.centre)
       /\ UNCHANGED geomOthers

GeomReadMove(limitOk) ==
    /\ moveState.segmentsLeft > 0
    /\ Set(ReadMove(cur, limitOk))
    /\ UNCHANGED <<calledIn, lastOp>>
    /\ UNCHANGED geomOthers

NextGeom ==
    \/ \E gb \in Builders : GeomDoStraightMove(gb)
    \/ \E gb \in Builders : GeomDoArcMove(gb)
    \/ \E limitOk \in BOOLEAN : GeomReadMove(limitOk)

SpecGeom == InitGeom /\ [][NextGeom]_vars

(***************************************************************************)
(* SpecPause: a print runs while the HTTP channel sends moves and resumes, *)
(* tools are changed, the motion consumer takes the moves, and the print   *)
(* is paused from the print file, from the HTTP channel, by a trigger and  *)
(* by the emergency pause.                                                 *)
(***************************************************************************)
pauseGhosts == <<pull, words, reading, files, waited, emergencyStopCommanded, build, lastRead, granted, cycle>>

\* the channels that call DoPause: M226 in the print file, M25 from HTTP, the
\* pause trigger
PauseCallers == {fileGCode, "HTTP", triggerGCode}

\* what is kept of the call of a pause function: the state it was called in
\* and the answer of the motion system
PauseCalled(gb, movesSkipped) ==
    [gb |-> gb,
     s |-> [movesSkipped |-> movesSkipped, segmentsLeft |-> moveState.segmentsLeft,
            owner |-> resourceOwners[MoveResource], pauseState |-> pauseState,
            idle |-> IsCompletelyIdle(cur, autoPauseGCode),
            currentUserPosition |-> position.currentUserPosition, rp |-> position.rp]]

PauseStartPrint(found) ==
    /\ ~isPrinting
    /\ ~IsDoingFile(cur, fileGCode)
    /\ Set(StartPrinting(cur, found))
    /\ lastOp' = Op("run", TRUE)
    /\ calledIn' = NoCall
    /\ UNCHANGED <<position, pauseGhosts>>

\* gb reads a move or a resume command and executes it; a move that is
\* published ends at user coordinate to
PauseExecute(gb, c, to) ==
    /\ Fetches(cur, gb)
    /\ \E o \in ExecuteOutcomes(cur, gb, c) :
          /\ Set(Program(o.s))
          /\ position' = IF o.s.log.published # <<>>
                         THEN [position EXCEPT !.currentUserPosition = to,
                                               !.moveFeedRate = position.feedRate[gb]]
                         ELSE position
    /\ lastOp' = Op("run", TRUE)
    /\ calledIn' = NoCall
    /\ UNCHANGED pauseGhosts

\* gb is given a quantum while it runs a state machine or is suspended
PauseService(gb) ==
    /\ ~Fetches(cur, gb)
    /\ \E o \in SpinGCodeBufferOutcomes(cur, gb) : Set(Program(o.s))
    /\ lastOp' = Op("run", TRUE)
    /\ calledIn' = NoCall
    /\ UNCHANGED <<position, pauseGhosts>>

PauseSelectTool(tool) ==
    /\ tool # position.currentTool
    /\ position' = [position EXCEPT !.currentTool = tool]
    /\ lastOp' = Op("run", TRUE)
    /\ calledIn' = NoCall
    /\ UNCHANGED <<gbs, resourceOwners, toBeHomed, pauseState, isPrinting, triggersPending,
                   nextGcodeSource, moveState, codeQueue, pauseGhosts>>

PauseReadMove ==
    /\ moveState.segmentsLeft > 0
    /\ Set(ReadMove(cur, TRUE))
    /\ lastOp' = Op("run", TRUE)
    /\ calledIn' = NoCall
    /\ UNCHANGED <<position, pauseGhosts>>

\* gb pauses the print: the callers of DoPause have checked that a print is
\* running and not paused, and have the Movement lock
PauseDoPause(gb, movesSkipped, stop) ==
    LET l == LockMovement(cur, gb)
    IN /\ IsReallyPrinting(cur)
       /\ IF gb = triggerGCode THEN IsCompletelyIdle(cur, gb)
          ELSE Fetches(cur, gb) /\ (gb = fileGCode => moveState.segmentsLeft = 0)
       /\ l.result
       /\ Set(DoPause(l.s, gb, "pausing1", movesSkipped))
       /\ position' = DoPauseRestorePoint(position, l.s, gb, movesSkipped, stop)
       /\ lastOp' = Op("DoPause", TRUE)
       /\ calledIn' = PauseCalled(gb, movesSkipped)
       /\ UNCHANGED pauseGhosts

\* the emergency pause after a motor stall
PauseDoEmergencyPause(movesSkipped, stop) ==
    LET r == DoEmergencyPause(cur, movesSkipped)
    IN /\ isPrinting
       /\ Set(r.s)
       /\ position' = DoEmergencyPauseRestorePoint(position, cur, movesSkipped, stop)
       /\ lastOp' = Op("DoEmergencyPause", r.result)
       /\ calledIn' = PauseCalled(autoPauseGCode, movesSkipped)
       /\ UNCHANGED pauseGhosts

\* the supply voltage has dropped
PauseLowVoltagePause(movesSkipped, stop) ==
    /\ LowVoltagePause(cur, movesSkipped) # cur
    /\ Set(LowVoltagePause(cur, movesSkipped))
    /\ position' = DoEmergencyPauseRestorePoint(position, cur, movesSkipped, stop)
    /\ lastOp' = Op("LowVoltagePause", TRUE)
    /\ calledIn' = PauseCalled(autoPauseGCode, movesSkipped)
    /\ UNCHANGED pauseGhosts

\* the commands read while the print runs: the HTTP channel is sent moves and
\* the resume command, the print file holds moves
PauseCommands(gb) == IF gb = "HTTP" THEN {G1(MaxSegments), M24} ELSE {G1(1)}

NextPause ==
    \/ \E found \in BOOLEAN : PauseStartPrint(found)
    \/ \E gb \in {"HTTP", fileGCode} : \E c \in PauseCommands(gb), to \in 0..MaxCoord :
          PauseExecute(gb, c, to)
    \/ \E gb \in Channels : PauseService(gb)
    \/ \E tool \in NoTool..MaxTool : PauseSelectTool(tool)
    \/ PauseReadMove
    \/ \E gb \in PauseCallers, movesSkipped \in BOOLEAN, stop \in StopAnswers :
          PauseDoPause(gb, movesSkipped, stop)
    \/ \E movesSkipped \in BOOLEAN, stop \in StopAnswers :
          PauseDoEmergencyPause(movesSkipped, stop)
    \/ \E movesSkipped \in BOOLEAN, stop \in StopAnswers :
          PauseLowVoltagePause(movesSkipped, stop)

SpecPause == Init /\ [][NextPause]_vars

(***************************************************************************)
(* Properties of the lock interface (checked under SpecLock).              *)
(***************************************************************************)
\* C1: mutual exclusion: under any sequence of lock and release calls each
\* resource is held by at most one channel, and a channel that was granted a
\* resource and has not released it is the one recorded in the owner table.
C1_MutualExclusion ==
    \A r \in Resources :
        /\ Cardinality(granted[r]) <= 1
        /\ granted[r] = IF resourceOwners[r] = NoOwner THEN {} ELSE {resourceOwners[r]}

\* a lock was refused because another channel holds a resource
C1_Witness ==
    /\ lastOp = Op("LockResource", FALSE)
    /\ \E r \in Resources : granted[r] # {}

\* C5: LockResource(gb, r) returns true exactly when r is free or already owned
\* by gb, and gb is then the owner of r; otherwise it returns false and leaves
\* the owner table and every channel's lock bits unchanged.
C5_LockResourceContract ==
    [][\A gb \in LockCallers, r \in Resources :
          CallLockResource(gb, r) =>
             LET free == resourceOwners[r] \in {NoOwner, gb}
             IN /\ lastOp'.result = free
                /\ free => /\ resourceOwners'[r] = gb
                           /\ \A q \in Resources \ {r} : resourceOwners'[q] = resourceOwners[q]
                /\ ~free => UNCHANGED <<gbs, resourceOwners, toBeHomed>>]_vars

\* a lock was refused while the resource is owned, and one was granted
C5_Witness ==
    /\ lastOp = Op("LockResource", FALSE)
    /\ \E r \in Resources : resourceOwners[r] # NoOwner

\* C6 as stated: GrabResource makes the auto-pause channel the owner and clears
\* the lock bit from the current frame of the channel it took the resource
\* from, leaving the bits of that channel's parent frames alone.
C6_GrabClearsOldOwnerBit ==
    [][CallGrabMovement =>
          LET old == resourceOwners[MoveResource]
          IN /\ resourceOwners'[MoveResource] = autoPauseGCode
             /\ (old \notin {NoOwner, autoPauseGCode}) =>
                   /\ MoveResource \notin LatestMachineState(gbs', old).lockedResources
                   /\ Len(gbs'[old].stack) = Len(gbs[old].stack)
                   /\ \A i \in 1..(Len(gbs[old].stack) - 1) :
                         gbs'[old].stack[i] = gbs[old].stack[i]]_vars

\* C6 as amended: GrabResource always makes the auto-pause channel the owner
\* (setting the bit in its current frame when it takes the resource over); the
\* frames of every other channel, the lock bit of the previous owner included,
\* are left as they were.
C6_GrabLeavesOldOwnerBit ==
    [][CallGrabMovement =>
          /\ resourceOwners'[MoveResource] = autoPauseGCode
          /\ resourceOwners[MoveResource] # autoPauseGCode =>
                MoveResource \in LatestMachineState(gbs', autoPauseGCode).lockedResources
          /\ resourceOwners'[FileSystemResource] = resourceOwners[FileSystemResource]
          /\ \A gb \in Channels \ {autoPauseGCode} : gbs'[gb] = gbs[gb]]_vars

\* the auto-pause channel has grabbed Movement from a channel that owned it
\* inside a macro; that channel still has the bit in both of its frames
C6_Witness ==
    /\ lastOp = Op("GrabResource", TRUE)
    /\ resourceOwners[MoveResource] = autoPauseGCode
    /\ \E gb \in Channels \ {autoPauseGCode} :
          /\ granted[MoveResource] = {autoPauseGCode}
          /\ HasPrevious(gbs, gb)
          /\ MoveResource \in LatestMachineState(gbs, gb).lockedResources
          /\ MoveResource \in PreviousMachineState(gbs, gb).lockedResources

\* C7: UnlockAll(gb) releases exactly the resources gb owns whose bit is not
\* set in the parent of its current frame (all it owns when there is no
\* parent) and touches no other channel; UnlockResource(gb, r) changes nothing
\* unless gb owns r.
C7_UnlockContract ==
    [][/\ \A gb \in LockCallers :
             CallUnlockAll(gb) =>
                LET keep == IF Len(gbs[gb].stack) > 1
                            THEN gbs[gb].stack[Len(gbs[gb].stack) - 1].lockedResources
                            ELSE {}
                IN /\ \A r \in Resources :
                         resourceOwners'[r] =
                            IF resourceOwners[r] = gb /\ r \notin keep
                            THEN NoOwner ELSE resourceOwners[r]
                   /\ \A other \in Channels \ {gb} : gbs'[other] = gbs[other]
       /\ \A gb \in LockCallers, r \in Resources :
             (CallUnlockResource(gb, r) /\ resourceOwners[r] # gb) =>
                UNCHANGED <<gbs, resourceOwners, toBeHomed>>]_vars

\* UnlockAll has released a resource while the caller, inside a macro, still
\* owns another one that its parent frame holds
C7_Witness ==
    /\ lastOp = Op("UnlockAll", TRUE)
    /\ \E gb \in LockCallers, r \in Resources :
          /\ HasPrevious(gbs, gb)
          /\ resourceOwners[r] = gb
          /\ r \in PreviousMachineState(gbs, gb).lockedResources
          /\ \E q \in Resources \ {r} :
                /\ resourceOwners[q] = NoOwner
                /\ q \notin LatestMachineState(gbs, gb).lockedResources

(***************************************************************************)
(* Properties of the move hand-off (checked under SpecMove).               *)
(***************************************************************************)
\* C2: publish-after-init: whenever segmentsLeft is non-zero every field of
\* the move has been written (the store to segmentsLeft is the last store of
\* the set-up), so under any interleaving of the stores with the consumer's
\* polls every move the consumer copies is the whole move that was meant.
C2_PublishAfterInit ==
    /\ moveState.segmentsLeft > 0 =>
          /\ build.todo = <<>>
          /\ MoveFields(moveState) = build.intended
    /\ lastRead.taken => lastRead.m = lastRead.intended

\* a set-up is half done on top of the fields of an earlier move that the
\* consumer took, and the consumer may poll now
C2_Witness ==
    /\ lastRead.taken
    /\ build.phase = "finalise"
    /\ build.todo # <<>>
    /\ moveState.segmentsLeft = 0
    /\ MoveFields(moveState) # build.intended
    /\ lastRead.m.totalSegments # build.intended.totalSegments

(***************************************************************************)
(* Properties of the engine (checked under Spec).                          *)
(***************************************************************************)
\* C3: only one move is in flight: every set-up of the shared move starts in
\* a state where segmentsLeft = 0, the channel that makes a move available
\* owns Movement when it does, and while a move stays in flight its fields
\* are not overwritten.
C3_OneMoveInFlight ==
    /\ [](\A i \in 1..Len(cycle.published) :
             /\ cycle.published[i].segmentsLeft = 0
             /\ cycle.published[i].available =>
                   cycle.published[i].owner = cycle.published[i].gb)
    /\ [][(moveState.segmentsLeft > 0 /\ moveState'.segmentsLeft > 0) =>
             MoveFields(moveState') = MoveFields(moveState)]_vars

\* the file channel's move command waits because the move published by
\* another channel in this cycle has not been taken yet
C3_Witness ==
    /\ \E i \in 1..Len(cycle.published) :
          cycle.published[i].available /\ cycle.published[i].gb # fileGCode
    /\ moveState.segmentsLeft > 0
    /\ moveState.filePos = noFilePosition
    /\ IsReady(cur, fileGCode)
    /\ gbs[fileGCode].cmd.code \in {"G1", "G10"}

PauseCycle ==
    {<<"notPaused", "pausing">>, <<"pausing", "paused">>,
     <<"paused", "resuming">>, <<"resuming", "notPaused">>}

\* C4 as stated: every change of pauseState is one of notPaused -> pausing,
\* pausing -> paused, paused -> resuming, resuming -> notPaused.
C4_PauseCycleOnly ==
    [][pauseState' # pauseState => <<pauseState, pauseState'>> \in PauseCycle]_vars

\* C4 as amended: every change of pauseState is one of the four steps of the
\* pause cycle, or notPaused -> paused directly (the emergency pause), or a
\* return to notPaused from any state (StopPrint, Reset).
C4_PauseSteps ==
    [][pauseState' # pauseState =>
          \/ <<pauseState, pauseState'>> \in PauseCycle
          \/ <<pauseState, pauseState'>> = <<"notPaused", "paused">>
          \/ pauseState' = "notPaused"]_vars

\* a power failure has paused the print: pauseState is paused and the
\* auto-pause channel, which grabbed Movement, runs the power-fail script
C4_Witness ==
    /\ pauseState = "paused"
    /\ GetState(cur, autoPauseGCode) = "powerFailPausing1"
    /\ resourceOwners[MoveResource] = autoPauseGCode
    /\ isPrinting

\* C10: DoEmergencyStop is idempotent: from every reachable state, performing
\* it twice in a row leaves the same state as performing it once.
C10_EmergencyStopIdempotent ==
    Program(DoEmergencyStop(DoEmergencyStop(cur))) = Program(DoEmergencyStop(cur))

\* an emergency stop has been performed while axes were being homed
C10_Witness ==
    /\ cycle.estop
    /\ toBeHomed
    /\ \A r \in Resources : resourceOwners[r] = NoOwner
    /\ nextGcodeSource = 0

(***************************************************************************)
(* The round-robin scan, read off the log of the last call of Spin.        *)
(***************************************************************************)
RoundRobinSources == NumSources - 1

SourceIndex(gb) == CHOOSE i \in 0..(NumSources - 1) : gcodeSources[i + 1] = gb

SourceAfter(i) == IF i + 1 = RoundRobinSources THEN 0 ELSE i + 1

\* the channels offered a quantum after the auto-pause channel
Offered(c) == SubSeq(c.serviced, 2, Len(c.serviced))

\* the last call of Spin serviced the auto-pause channel, then the round-robin
\* channels in order from index first, up to and including the first one that
\* did something useful (all of them if none did), and left the cursor just
\* after the last channel it offered
ScannedFrom(c, first) ==
    /\ c.serviced # <<>>
    /\ c.serviced[1].gb = autoPauseGCode
    /\ Len(Offered(c)) \in 1..RoundRobinSources
    /\ Offered(c)[1].gb = gcodeSources[first + 1]
    /\ \A i \in 1..(Len(Offered(c)) - 1) :
          /\ ~Offered(c)[i].result
          /\ SourceIndex(Offered(c)[i + 1].gb) = SourceAfter(SourceIndex(Offered(c)[i].gb))
    /\ ~Offered(c)[Len(Offered(c))].result => Len(Offered(c)) = RoundRobinSources
    /\ nextGcodeSource = SourceAfter(SourceIndex(Offered(c)[Len(Offered(c))].gb))

\* C9: round-robin fairness.  A call of Spin scans the round-robin channels
\* from the cursor the previous call left, stops at the first channel that
\* does something useful and leaves the cursor just after it: a channel with
\* work is serviced in every cycle in which the channels before it are idle,
\* and once it has been serviced every other channel is offered a quantum
\* before it is serviced again.  (A call that performs an emergency stop
\* discards the work of every channel and rewinds the cursor to the first
\* channel: the commanded stop services no channel, and after trigger 0 the
\* scan starts at the first channel.)
C9_RoundRobinFairness ==
    cycle # EmptyLog =>
        IF cycle.estop
        THEN \/ cycle.serviced = <<>> /\ nextGcodeSource = 0
             \/ 0 \in {cycle.actioned[i] : i \in 1..Len(cycle.actioned)} /\ ScannedFrom(cycle, 0)
        ELSE ScannedFrom(cycle, cycle.entry)

\* the HTTP channel did useful work in the previous cycle, and in this one it
\* is serviced again only after the file and trigger channels were offered
C9_Witness ==
    /\ ~cycle.estop
    /\ cycle.entry = SourceAfter(SourceIndex("HTTP"))
    /\ Len(Offered(cycle)) = RoundRobinSources
    /\ Offered(cycle)[RoundRobinSources] = [gb |-> "HTTP", result |-> TRUE]
    /\ nextGcodeSource = cycle.entry

(***************************************************************************)
(* Trigger arbitration (checked under SpecTrig).                           *)
(***************************************************************************)
\* the trigger channel is neither running a trigger macro nor in a state
TriggerChannelIdle == ~IsTriggerBusy(cur) /\ GetState(cur, triggerGCode) = "normal"

\* what one poll does with the pending set pend (the bits pending before the
\* poll and those found true by it), r being the state the poll leaves
ArbitratedPoll(pend, r) ==
    /\ Len(r.log.actioned) <= 1
    /\ r.log.actioned # <<>> =>
          /\ pend # {}
          /\ r.log.actioned[1] = LowestSetBit(pend)
          /\ r.log.actioned[1] # 0 => r.triggersPending = pend \ {r.log.actioned[1]}
    /\ r.log.actioned = <<>> => r.triggersPending \in {pend, pend \ {1}}
    /\ (pend # {} /\ LowestSetBit(pend) = 1 /\ IsReallyPrinting(cur) /\ TriggerChannelIdle) =>
          IF resourceOwners[MoveResource] \in {NoOwner, triggerGCode}
          THEN /\ r.log.actioned = <<1>>
               /\ r.triggersPending = pend \ {1}
               /\ r.pauseState = "pausing"
               /\ GetState(r, triggerGCode) = "pausing1"
               /\ r.resourceOwners[MoveResource] = triggerGCode
          ELSE Program(r) = [cur EXCEPT !.triggersPending = pend]

IsReset(r) ==
    /\ \A gb \in Channels : r.gbs[gb] = InitialBuffer
    /\ \A res \in Resources : r.resourceOwners[res] = NoOwner
    /\ r.moveState.segmentsLeft = 0
    /\ r.moveState.segMoveState = "inactive"
    /\ r.moveState.filePos = noFilePosition
    /\ r.pauseState = "notPaused"
    /\ r.triggersPending = {}
    /\ r.codeQueue = {}
    /\ r.nextGcodeSource = 0

C11_EmergencyStopResets ==
    \A queued \in {{}, Channels} :
        IsReset(DoEmergencyStop([cur EXCEPT !.codeQueue = queued]))

\* a cycle that began with the cursor away from 0 has performed the emergency
\* stop because trigger 0 was pending
C11_Witness ==
    /\ cycle.estop
    /\ cycle.actioned = <<0>>
    /\ cycle.entry # 0
    /\ IsReset(cur)

(***************************************************************************)
(* C17.  Within a channel the commands are executed in the order they were *)
(* read: a quantum given to a channel whose previous command is still      *)
(* ready, or whose state is not normal, reads no new command; the command  *)
(* that is ready is the one acted on, and a channel whose state is not     *)
(* normal only has its state machine stepped once (the quantum counts as   *)
(* useful and the buffered command is left alone).                         *)
(***************************************************************************)
C17_CommandsInOrder ==
    \A gb \in Channels :
        \A o \in SpinGCodeBufferOutcomes(cur, gb) :
            /\ (IsReady(cur, gb) \/ GetState(cur, gb) # "normal") =>
                  o.s.log.fetched = <<>>
            /\ (IsReady(cur, gb) /\ IsReady(o.s, gb)) => o.s.gbs[gb].cmd = gbs[gb].cmd
            /\ GetState(cur, gb) # "normal" =>
                  /\ o.result
                  /\ Program(o.s) \in {Program(x) : x \in RunStateMachineOutcomes(cur, gb)}
                  /\ o.s.gbs[gb].buf = gbs[gb].buf
                  /\ o.s.gbs[gb].cmd = gbs[gb].cmd

\* the file channel was given a quantum while the move it had read could not
\* yet be published: it did useful work, and the same move is still ready
C17_Witness ==
    /\ ~cycle.estop
    /\ \E i \in 1..Len(cycle.serviced) : cycle.serviced[i] = [gb |-> fileGCode, result |-> TRUE]
    /\ IsDoingFile(cur, fileGCode)
    /\ IsReady(cur, fileGCode)
    /\ gbs[fileGCode].cmd = G1(1)
    /\ moveState.segmentsLeft > 0

(***************************************************************************)
(* C18.  When the emergency stop has been signalled at interrupt level, the *)
(* next call of Spin performs DoEmergencyStop and nothing else: it checks  *)
(* no trigger, gives no channel a quantum (neither the auto-pause channel  *)
(* nor a round-robin one), publishes no move, and clears the signal.       *)
(***************************************************************************)
C18_CommandedStopOnly ==
    emergencyStopCommanded =>
        \A r \in SpinResults(cur, emergencyStopCommanded) :
            /\ r.s.log.estop
            /\ r.s.log.actioned = <<>>
            /\ r.s.log.serviced = <<>>
            /\ r.s.log.published = <<>>
            /\ r.s.log.fetched = <<>>
            /\ ~r.commanded
            /\ Program(r.s) = Program(DoEmergencyStop(cur))

\* a call of Spin entered with the cursor away from 0 has performed the
\* commanded emergency stop and nothing else
C18_Witness ==
    /\ cycle.estop
    /\ cycle.actioned = <<>>
    /\ cycle.serviced = <<>>
    /\ cycle.entry # 0
    /\ nextGcodeSource = 0
    /\ ~emergencyStopCommanded

(***************************************************************************)
(* C19.  In a call of Spin that does not perform an emergency stop the     *)
(* auto-pause channel is given its quantum exactly once, before every      *)
(* round-robin channel, and the round-robin scan, which gives at least one *)
(* channel a quantum, never gives the auto-pause channel another.          *)
(***************************************************************************)
C19_AutoPauseOnceAndFirst ==
    (~cycle.estop /\ cycle.serviced # <<>>) =>
        /\ cycle.serviced[1].gb = autoPauseGCode
        /\ Len(cycle.serviced) >= 2
        /\ \A i \in 2..Len(cycle.serviced) : cycle.serviced[i].gb # autoPauseGCode

\* the auto-pause channel ran its state machine and then every round-robin
\* channel was offered a quantum
C19_Witness ==
    /\ ~cycle.estop
    /\ Len(cycle.serviced) = NumSources
    /\ cycle.serviced[1] = [gb |-> autoPauseGCode, result |-> TRUE]
    /\ \A i \in 2..Len(cycle.serviced) : cycle.serviced[i].gb # autoPauseGCode

(***************************************************************************)
(* C20.  A poll that finds trigger 0 pending performs DoEmergencyStop in   *)
(* that same poll, whatever else is pending, whether or not the trigger    *)
(* channel is busy, whether a print is running, pausing or paused, and     *)
(* whichever channel owns Movement: the poll actions trigger 0 alone and   *)
(* leaves the state DoEmergencyStop leaves.  (Checked under SpecTrig.)     *)
(***************************************************************************)
\* the sets of triggers found true that include trigger 0, alone or with the
\* pause trigger and the highest trigger
WithTriggerZero == {{0} \cup others : others \in SUBSET {1, MaxTrigger}}

C20_TriggerZeroStops ==
    \A fired \in WithTriggerZero, movesSkipped \in BOOLEAN, found \in BOOLEAN :
        LET r == CheckTriggers(cur, fired, movesSkipped, found)
        IN /\ r.log.estop
           /\ r.log.actioned = <<0>>
           /\ Program(r) = Program(DoEmergencyStop(cur))
           /\ IsReset(r)

\* the trigger channel is running a trigger macro, a print is running and the
\* HTTP channel owns Movement; a poll that finds triggers 0 and 1 true stops
C20_Witness ==
    /\ IsTriggerBusy(cur)
    /\ isPrinting
    /\ resourceOwners[MoveResource] = "HTTP"
    /\ LET r == CheckTriggers(cur, {0, 1}, FALSE, FALSE)
       IN r.log.estop /\ r.log.actioned = <<0>> /\ IsReset(r)

(***************************************************************************)
(* C12.  A restore point that SavePosition filled and RestorePosition then *)
(* read gives back the user coordinates that were active at the save, and  *)
(* the saved feed rate to the channel handed to RestorePosition (to no     *)
(* channel if none is handed over).  The tool number active at the save is *)
(* kept in the restore point, but RestorePosition selects no tool: the     *)
(* current tool is the one it was called with.                             *)
(***************************************************************************)
C12_RestoredFromSave ==
    (lastOp.op = "RestorePosition" /\ position.atSave.valid) =>
        /\ position.currentUserPosition = position.atSave.coords
        /\ lastOp.result => position.feedRate[position.restoredTo] = position.atSave.feed
        /\ position.rp.toolNumber = position.atSave.tool

C12_RestoreLeaves ==
    lastOp'.op = "RestorePosition" =>
        /\ position'.currentTool = position.currentTool
        /\ position'.rp = position.rp
        /\ \A gb \in PosChannels :
              (~lastOp'.result \/ gb # position'.restoredTo) =>
                  position'.feedRate[gb] = position.feedRate[gb]

C12_SaveRestoreRoundTrip == []C12_RestoredFromSave /\ [][C12_RestoreLeaves]_vars

\* coordinates, feed rate and tool were all changed after the save, and the
\* restore gave the coordinates and the feed rate back but not the tool
C12_Witness ==
    /\ lastOp = Op("RestorePosition", TRUE)
    /\ position.atSave.valid /\ position.atSave.changed
    /\ position.restoredTo = position.atSave.gb
    /\ position.currentUserPosition = position.atSave.coords
    /\ position.feedRate[position.restoredTo] = position.atSave.feed
    /\ position.currentTool # position.atSave.tool
    /\ position.rp.toolNumber = position.atSave.tool

\* the statement as the specification words it: the coordinates, the feed
\* rate and the tool number active at the save are all current again
C12_AsStated ==
    (lastOp.op = "RestorePosition" /\ position.atSave.valid) =>
        /\ position.currentUserPosition = position.atSave.coords
        /\ position.feedRate[position.atSave.gb] = position.atSave.feed
        /\ position.currentTool = position.atSave.tool

(***************************************************************************)
(* Error paths (checked under SpecErr).                                    *)
(***************************************************************************)
\* a move is waiting that a channel other than gb published: a move from the
\* print file carries a file position, a move from any other channel none
MoveOfAnother(s, gb) ==
    /\ s.moveState.segmentsLeft > 0
    /\ (gb = fileGCode) = (s.moveState.filePos = noFilePosition)

\* r differs from the current state in nothing that belongs to a channel
\* other than gb: command buffers, frame stacks, owned resources, deferred
\* commands, published move
OthersUntouched(gb, r) ==
    /\ \A o \in Channels \ {gb} : r.gbs[o] = gbs[o]
    /\ \A res \in Resources :
          resourceOwners[res] \notin {gb, NoOwner} =>
              r.resourceOwners[res] = resourceOwners[res]
    /\ codeQueue \ {gb} \subseteq r.codeQueue
    /\ MoveOfAnother(cur, gb) => r.moveState = moveState

\* C13: an error or abort handled on one channel (a command that throws, a
\* file that cannot be read, a cancelled message box, AbortPrint) changes
\* nothing that belongs to another channel: the other channels' command
\* buffers, frame stacks and owned resources, their deferred commands and a
\* move they have published stay as they are.
C13_ErrorsStayOnChannel ==
    \A gb \in Channels :
        /\ OthersUntouched(gb, AbortPrint(cur, gb))
        /\ Fetches(cur, gb) =>
              OthersUntouched(gb, IF IsDoingFile(cur, gb)
                                  THEN FileCommandException(cur, gb).s
                                  ELSE LiveCommandException(cur, gb).s)
        /\ (Fetches(cur, gb) /\ IsDoingFile(cur, gb)) =>
              OthersUntouched(gb, FileReadError(cur, gb).s)
        /\ (/\ GetState(cur, gb) = "normal"
            /\ LatestMachineState(gbs, gb).messageAcknowledged
            /\ LatestMachineState(gbs, gb).messageCancelled) =>
              OthersUntouched(gb, MessageAcknowledged(cur, gb).s)

\* what the channel does when the command it has just read throws
CommandException(gb) ==
    IF IsDoingFile(cur, gb) THEN FileCommandException(cur, gb)
    ELSE LiveCommandException(cur, gb)

OwnsNothing(gb, r) == \A res \in Resources : r.resourceOwners[res] # gb

\* gb is at a point where it may start a macro file
MayRunMacro(s, gb) == GetState(s, gb) # "normal" \/ Fetches(s, gb)

\* C15: after AbortPrint has run for a channel, whichever channel it is and
\* whether a command read from its file threw, the file could not be read or
\* the frame stack overflowed, the channel's locks have been released: it
\* owns no resource.
C15_AbortReleasesLocks ==
    \A gb \in Channels :
        /\ (Fetches(cur, gb) /\ IsDoingFile(cur, gb)) =>
              /\ OwnsNothing(gb, FileCommandException(cur, gb).s)
              /\ OwnsNothing(gb, FileReadError(cur, gb).s)
        /\ (MayRunMacro(cur, gb) /\ ~PushState(gbs, gb).ok) =>
              OwnsNothing(gb, Push(cur, gb).s)

\* C16: when the frame for a macro cannot be pushed (stack overflow),
\* whatever file or print the channel is running is aborted through
\* AbortPrint and the macro is not started: the channel's stack gets no new
\* frame, no file is left open on the channel, and DoFileMacro returns true.
C16_PushOverflowAborts ==
    \A gb \in Channels, reportMissing \in BOOLEAN :
        (MayRunMacro(cur, gb) /\ ~PushState(gbs, gb).ok) =>
            LET r == DoFileMacro(cur, gb, TRUE, reportMissing)
            IN /\ r.result
               /\ r.s = AbortPrint(cur, gb)
               /\ Len(r.s.gbs[gb].stack) = 1
               /\ ~IsDoingFile(r.s, gb)
               /\ ~IsDoingFileMacro(r.s, gb)
               /\ gb = fileGCode => ~r.s.isPrinting

\* the file channel, printing and inside a macro, tried to start another
\* macro when no frame was left: the print has been aborted
C16_Witness ==
    /\ lastOp = Op("DoFileMacro", TRUE)
    /\ calledIn.gb = fileGCode
    /\ ~PushState(calledIn.s.gbs, fileGCode).ok
    /\ Len(calledIn.s.gbs[fileGCode].stack) > 1
    /\ calledIn.s.gbs[fileGCode].stack[1].fileLive
    /\ Len(gbs[fileGCode].stack) = 1
    /\ ~IsDoingFile(cur, fileGCode)
    /\ ~isPrinting

(***************************************************************************)
(* Properties of pausing (checked under SpecPause).                        *)
(***************************************************************************)
\* C21: DoEmergencyPause returns false exactly when the auto-pause channel is
\* not completely idle, and then changes nothing: the owner table, the lock
\* bits, the restore point, the user position, the shared move and pauseState
\* are as before.  In every other case it succeeds within the call: the
\* auto-pause channel owns Movement, pauseState is paused and it returns true.
C21_EmergencyPauseContract ==
    \A movesSkipped \in BOOLEAN, stop \in StopAnswers :
        LET r == DoEmergencyPause(cur, movesSkipped)
            p == DoEmergencyPauseRestorePoint(position, cur, movesSkipped, stop)
        IN /\ r.result = IsCompletelyIdle(cur, autoPauseGCode)
           /\ ~r.result => r.s = cur /\ p = position
           /\ r.result => /\ r.s.resourceOwners[MoveResource] = autoPauseGCode
                          /\ MoveResource
                                \in LatestMachineState(r.s.gbs, autoPauseGCode).lockedResources
                          /\ r.s.pauseState = "paused"

\* an emergency pause took Movement from the channel that owned it, and a
\* second one found the auto-pause channel still busy with the first
C21_Witness ==
    /\ lastOp = Op("DoEmergencyPause", FALSE)
    /\ calledIn.gb = autoPauseGCode
    /\ ~calledIn.s.idle
    /\ GetState(cur, autoPauseGCode) = "powerFailPausing1"
    /\ resourceOwners[MoveResource] = autoPauseGCode
    /\ MoveResource \in LatestMachineState(gbs, "HTTP").lockedResources
    /\ pauseState = "paused"

\* C22: after DoPause returns, in every branch (the pause issued by the print
\* file itself, queued moves skipped, the waiting move skipped, nothing
\* waiting), the coordinates of the pause restore point equal the current
\* user position, pauseState is pausing and the calling channel is in the
\* requested new state.
C22_RestorePointInUserCoordinates ==
    \A gb \in PauseCallers, newState \in {"pausing1", "filamentChangePause1"},
       movesSkipped \in BOOLEAN, stop \in StopAnswers :
        LET l == LockMovement(cur, gb)
        IN (IsReallyPrinting(cur) /\ l.result) =>
              LET s == DoPause(l.s, gb, newState, movesSkipped)
                  p == DoPauseRestorePoint(position, l.s, gb, movesSkipped, stop)
              IN /\ p.rp.moveCoords = p.currentUserPosition
                 /\ s.pauseState = "pausing"
                 /\ GetState(s, gb) = newState

\* the trigger paused the print with a tool selected and a move waiting that
\* could be skipped: the user position moved back to the start of that move
C22_Witness ==
    /\ lastOp = Op("DoPause", TRUE)
    /\ calledIn.gb = triggerGCode
    /\ ~calledIn.s.movesSkipped
    /\ calledIn.s.segmentsLeft # 0
    /\ position.currentTool # NoTool
    /\ position.currentUserPosition # calledIn.s.currentUserPosition
    /\ position.rp.moveCoords = position.currentUserPosition
    /\ position.rp.moveCoords # calledIn.s.rp.moveCoords
    /\ moveState.segmentsLeft = 0
    /\ pauseState = "pausing"
    /\ GetState(cur, triggerGCode) = "pausing1"

(***************************************************************************)
(* Properties of the consumer's reads (checked under SpecRead).            *)
(***************************************************************************)
\* the move published last had nothing to skip, none of its segments has
\* failed the limit check and it has not been withdrawn
PulledWhole ==
    /\ pull.n >= 1
    /\ pull.segmentsLeftToStartAt >= pull.n
    /\ ~pull.failed
    /\ ~pull.cleared

\* C23: the consumer pulls a published move to exhaustion.  After a move of
\* N >= 1 segments is published with nothing to skip, and as long as every
\* segment passes the limit check, each ReadMove returns true and counts
\* segmentsLeft down by one, so that it has returned true exactly N times when
\* segmentsLeft reaches 0; from then on ReadMove returns false and changes
\* nothing until the next move is published.
C23_PulledToExhaustion ==
    /\ PulledWhole =>
          /\ pull.reads + moveState.segmentsLeft = pull.n
          /\ moveState.segmentsLeft > 0 =>
                LET r == ReadMoveFrom(moveState, pull.segmentsLeftToStartAt, TRUE)
                IN r.result /\ r.m.segmentsLeft = moveState.segmentsLeft - 1
    /\ moveState.segmentsLeft = 0 =>
          \A limitOk \in BOOLEAN :
              ReadMoveFrom(moveState, pull.segmentsLeftToStartAt, limitOk)
                  = [m |-> moveState, result |-> FALSE]

\* a move of MaxSegments segments has been pulled whole, and the read after
\* its last segment returned false
C23_Witness ==
    /\ PulledWhole
    /\ pull.n = MaxSegments
    /\ pull.reads = MaxSegments
    /\ moveState.segmentsLeft = 0
    /\ lastOp = Op("ReadMove", FALSE)

(***************************************************************************)
(* Properties of moves and aborts (checked under SpecErr).                 *)
(***************************************************************************)
\* the straight and arc moves a channel may be sent
SegmentedMoves == {G1(n) : n \in 1..MaxSegments} \cup {G2(n) : n \in 1..MaxSegments}

\* the frame that invoked the macro gb is running holds the Movement lock bit
MovementInherited(s, gb) ==
    /\ HasPrevious(s.gbs, gb)
    /\ MoveResource \in PreviousMachineState(s.gbs, gb).lockedResources

\* C24: DoStraightMove and DoArcMove release the Movement resource as soon as
\* they have published the move: when either returns success, every segment
\* of the move is still pending and the issuing channel no longer owns
\* Movement, unless the lock is inherited from the frame that invoked the
\* macro it is running; so any other channel can lock Movement, and the
\* emergency pause can take it, in the middle of the move.
C24_MoveReleasesMovement ==
    \A gb \in ErrChannels, c \in SegmentedMoves :
        LET l == LockMovement(cur, gb)
        IN (l.result /\ moveState.segmentsLeft = 0 /\ ~MovementInherited(cur, gb)) =>
              LET r == DoStraightMove(l.s, gb, c, FALSE)
              IN /\ r.moveState.segmentsLeft = c.n
                 /\ r.resourceOwners[MoveResource] = NoOwner
                 /\ MoveResource \notin LatestMachineState(r.gbs, gb).lockedResources
                 /\ \A other \in Channels \ {gb} : LockMovement(r, other).result

\* a move published by the HTTP channel is waiting and Movement is free
C24_Witness ==
    /\ moveState.segmentsLeft > 0
    /\ moveState.filePos = noFilePosition
    /\ resourceOwners[MoveResource] = NoOwner
    /\ IsCompletelyIdle(cur, "HTTP")
    /\ lastOp = Op("run", TRUE)

\* C25: AbortPrint(gb), for any channel gb that is running a file or a macro,
\* unwinds the macro stack of gb and clears the move buffer: on return gb has
\* no macro frame and no open file, and segmentsLeft is 0, so that a move not
\* yet taken by the motion consumer is not delivered after the abort.
C25_AbortClearsMove ==
    \A gb \in ErrChannels :
        IsDoingFile(cur, gb) =>
            LET r == AbortPrint(cur, gb)
            IN /\ ~HasPrevious(r.gbs, gb)
               /\ ~IsDoingFile(r, gb)
               /\ r.moveState.segmentsLeft = 0

(***************************************************************************)
(* Properties of the move commands (SpecGeom).                             *)
(***************************************************************************)
MoveCommandReturned == lastOp.op \in {"DoStraightMove", "DoArcMove"}

NothingQueued ==
    /\ calledIn.s.moveState.segmentsLeft = 0
    /\ calledIn.s.published = <<>>

\* C26: whenever DoStraightMove or DoArcMove returns with an error message
\* set, no move is queued: segmentsLeft is still 0 and the motion consumer
\* has not been told of a move.
C26_ErrorQueuesNoMove ==
    (MoveCommandReturned /\ calledIn.s.err # noError) => NothingQueued

\* a G0/G1 that mentions axes has returned the error of a target outside the
\* machine limits, and a move without error is what the other commands queue
C26_Witness ==
    /\ lastOp.op = "DoStraightMove"
    /\ words.axesMentioned
    /\ calledIn.s.err = "G0/G1: target position outside machine limits"
    /\ moveState.segmentsLeft = 0

\* the straight move was set up and made available
StraightMovePublished ==
    /\ lastOp.op = "DoStraightMove"
    /\ calledIn.s.err = noError
    /\ Len(calledIn.s.published) = 1
    /\ calledIn.s.published[1].available
    /\ calledIn.s.moveState.segmentsLeft = calledIn.s.moveState.totalSegments

\* the smaller of path length / minimum segment length and
\* move time * segments per second, as a ratio
SegmentRatio ==
    IF words.moveLength * words.feedRate
           <= words.moveLength * words.segmentsPerSecond * words.minSegmentLength
    THEN <<words.moveLength, words.minSegmentLength>>
    ELSE <<words.moveLength * words.segmentsPerSecond, words.feedRate>>

\* k is the integer nearest to the ratio p, the even one when two are equally near
NearestTo(k, p) ==
    LET twice == 2 * k * p[2] - 2 * p[1]
    IN /\ twice >= 0 - p[2]
       /\ twice <= p[2]
       /\ (twice \in {p[2], 0 - p[2]} => k % 2 = 0)

dSquared == words.deltaAxis0 * words.deltaAxis0 + words.deltaAxis1 * words.deltaAxis1

\* a G2/G3 with an R word between two different points has returned
RadiusArcReturned ==
    /\ lastOp.op = "DoArcMove"
    /\ words.seenR
    /\ dSquared > 0

FourRSquared == 4 * words.rParam * words.rParam

\* the arc was set up and made available
ArcPublished ==
    /\ calledIn.s.err = noError
    /\ Len(calledIn.s.published) = 1
    /\ calledIn.s.published[1].available
    /\ calledIn.s.moveState.doingArcMove

LockBits(g, gb) == LatestMachineState(g, gb).lockedResources

\* C29 as stated: in every reachable state channel c is the owner of
\* resource r in the owner table if and only if bit r is set in the
\* lockedResources of c's latest frame.
C29_OwnerLockBitMirror ==
    \A r \in Resources, c \in Channels :
       resourceOwners[r] = c <=> r \in LockBits(gbs, c)

\* C29 (as the code has it): each operation updates the owner table and the
\* lock bit together for the channel and the frame it acts on, and nothing
\* else.  A LockResource that acquires r and every GrabResource that takes r
\* make the caller the owner with bit r set in its latest frame and leave the
\* frames of every other channel as they are; an UnlockResource or UnlockAll
\* that releases r clears the owner and bit r of the caller's latest frame and
\* leaves its earlier frames as they are; UnlockAll keeps what the previous
\* frame has a bit for; a pushed frame starts with the bits of its parent and
\* a pop returns to the bits of the previous frame, the owner table unchanged.
C29_OperationsUpdateOwnPair ==
    \A gb \in LockCallers, r \in Resources :
       /\ LET l == LockResource(cur, gb, r)
          IN /\ l.result <=> resourceOwners[r] \in {gb, NoOwner}
             /\ IF resourceOwners[r] = NoOwner
                THEN /\ l.s.resourceOwners[r] = gb
                     /\ r \in LockBits(l.s.gbs, gb)
                     /\ \A o \in Channels \ {gb} : l.s.gbs[o] = gbs[o]
                ELSE l.s = cur
       /\ LET g == GrabResource(cur, gb, r)
          IN IF resourceOwners[r] # gb
             THEN /\ g.resourceOwners[r] = gb
                  /\ r \in LockBits(g.gbs, gb)
                  /\ \A o \in Channels \ {gb} : g.gbs[o] = gbs[o]
             ELSE g = cur
       /\ LET u == UnlockResource(cur, gb, r)
          IN IF resourceOwners[r] = gb
             THEN /\ u.resourceOwners[r] = NoOwner
                  /\ r \notin LockBits(u.gbs, gb)
                  /\ \A i \in 1..(Len(gbs[gb].stack) - 1) : u.gbs[gb].stack[i] = gbs[gb].stack[i]
             ELSE u = cur
       /\ LET a == UnlockAll(cur, gb)
              kept == IF HasPrevious(gbs, gb)
                      THEN PreviousMachineState(gbs, gb).lockedResources
                      ELSE {}
          IN /\ resourceOwners[r] = gb =>
                   IF r \in kept
                   THEN /\ a.resourceOwners[r] = gb
                        /\ r \in LockBits(a.gbs, gb) <=> r \in LockBits(gbs, gb)
                   ELSE /\ a.resourceOwners[r] = NoOwner
                        /\ r \notin LockBits(a.gbs, gb)
             /\ resourceOwners[r] # gb =>
                   /\ a.resourceOwners[r] = resourceOwners[r]
                   /\ r \in LockBits(a.gbs, gb) <=> r \in LockBits(gbs, gb)
             /\ \A i \in 1..(Len(gbs[gb].stack) - 1) : a.gbs[gb].stack[i] = gbs[gb].stack[i]
       /\ LET p == PushState(gbs, gb)
          IN p.ok => LockBits(p.g, gb) = LockBits(gbs, gb)
       /\ LET p == PopState(gbs, gb)
          IN p.ok => LatestMachineState(p.g, gb) = PreviousMachineState(gbs, gb)

\* the print-file channel has come back from a frame in which it released
\* Movement: nobody owns Movement, and the bit is set in its latest frame
C29_Witness ==
    /\ lastOp = Op("PopState", TRUE)
    /\ resourceOwners[MoveResource] = NoOwner
    /\ MoveResource \in LockBits(gbs, fileGCode)
    /\ ~HasPrevious(gbs, fileGCode)

(***************************************************************************)
(* The locks of a channel across a macro (SpecErr).                        *)
(***************************************************************************)
OwnedBy(s, gb) == {r \in Resources : s.resourceOwners[r] = gb}

\* gb has just started a macro: calledIn is the state DoFileMacro was called in
MacroStarted(gb) ==
    /\ lastOp = Op("DoFileMacro", TRUE)
    /\ calledIn.gb = gb
    /\ Len(gbs[gb].stack) = Len(calledIn.s.gbs[gb].stack) + 1

\* the macro runs commands that complete in state normal, then its file ends
MacroRun(gb) == FinishMacro(BufInit(UnlockAll(cur, gb), gb), gb)

C31_NoOwnerNothingToHome == resourceOwners[MoveResource] = NoOwner => ~toBeHomed

(***************************************************************************)
(* The pause trigger when nothing is printing (checked under SpecTrig).    *)
(***************************************************************************)
\* trigger 1 is the lowest of the bits pend and the machine is not really
\* printing
PauseTriggerNotPrinting(pend) ==
    /\ pend # {}
    /\ LowestSetBit(pend) = 1
    /\ ~IsReallyPrinting(cur)

\* the poll left everything as it was except the pending bits, which are rest:
\* no pause started, pauseState and the owner of Movement unchanged
OnlyPendingChanged(r, rest) ==
    /\ r.log.actioned = <<>>
    /\ Program(r) = [cur EXCEPT !.triggersPending = rest]

\* C32: when trigger 1 (pause) is the lowest pending trigger, the machine is
\* not really printing and the trigger channel is idle (not running a file,
\* state normal), the poll discards the trigger: its bit is cleared, no pause
\* is started, pauseState is unchanged and the trigger channel does not
\* acquire Movement.  While the trigger channel is busy the poll changes
\* nothing and the bit stays pending.
C32_IdlePollDiscardsPauseTrigger ==
    \A fired \in SUBSET TriggerNumbers, movesSkipped \in BOOLEAN, found \in BOOLEAN :
        LET pend == triggersPending \cup fired
            r == CheckTriggers(cur, fired, movesSkipped, found)
        IN PauseTriggerNotPrinting(pend) =>
              IF TriggerChannelIdle
              THEN OnlyPendingChanged(r, pend \ {1})
              ELSE OnlyPendingChanged(r, pend)

\* C32 as stated: the pause trigger is discarded whenever the machine is not
\* really printing, whatever the trigger channel is doing
C32_DiscardedWheneverNotPrinting ==
    \A fired \in SUBSET TriggerNumbers, movesSkipped \in BOOLEAN, found \in BOOLEAN :
        LET pend == triggersPending \cup fired
            r == CheckTriggers(cur, fired, movesSkipped, found)
        IN PauseTriggerNotPrinting(pend) => OnlyPendingChanged(r, pend \ {1})

\* a print is paused, the trigger channel is idle and Movement is free; a
\* poll that finds the pause trigger and the highest trigger true discards the
\* pause trigger and leaves the other pending
C32_Witness ==
    /\ isPrinting
    /\ pauseState = "paused"
    /\ TriggerChannelIdle
    /\ resourceOwners[MoveResource] = NoOwner
    /\ triggersPending = {}
    /\ LET r == CheckTriggers(cur, {1, MaxTrigger}, FALSE, FALSE)
       IN /\ r.triggersPending = {MaxTrigger}
          /\ r.pauseState = "paused"
          /\ r.resourceOwners[MoveResource] = NoOwner

(***************************************************************************)
(* The macro triggers, numbers 2 and above (checked under SpecTrig).       *)
(***************************************************************************)
MacroTriggers == TriggerNumbers \ {0, 1}

\* the poll that leaves r has invoked the macro of trigger n on the trigger
\* channel: the bit is cleared and, when the file exists, the channel runs it
MacroInvoked(pend, r, n, found) ==
    /\ r.log.actioned = <<n>>
    /\ r.triggersPending = pend \ {n}
    /\ found => /\ IsDoingFile(r, triggerGCode)
                /\ LatestMachineState(r.gbs, triggerGCode).doingFileMacro
    /\ Program(r) = Program(DoFileMacro([cur EXCEPT !.triggersPending = pend \ {n}],
                                        triggerGCode, found, TRUE).s)

\* what one poll does with the macro trigger n of the pending set pend;
\* stopped tells whether an emergency stop in the poll may account for a bit
\* that is cleared
MacroTriggerPoll(pend, r, n, found, stopped) ==
    /\ r.log.actioned = <<n>> => TriggerChannelIdle /\ n = LowestSetBit(pend)
    /\ (TriggerChannelIdle /\ n = LowestSetBit(pend)) => MacroInvoked(pend, r, n, found)
    /\ ~TriggerChannelIdle => r.log.actioned # <<n>> /\ (n \in r.triggersPending \/ stopped)
    /\ n \notin r.triggersPending => r.log.actioned = <<n>> \/ stopped

\* C33: a pending trigger numbered 2 or above has its macro invoked on the
\* trigger channel only by a poll that finds the trigger channel idle (not
\* running a file, state normal), and is invoked by that poll when it is the
\* lowest pending.  While the trigger channel is busy it is not actioned, and
\* its bit is cleared exactly by the poll that invokes its macro, except that
\* a poll that actions trigger 0 performs the emergency stop, which clears
\* every pending bit without invoking any macro.
C33_MacroTriggerWhenIdle ==
    \A fired \in SUBSET TriggerNumbers, movesSkipped \in BOOLEAN, found \in BOOLEAN :
        LET pend == triggersPending \cup fired
            r == CheckTriggers(cur, fired, movesSkipped, found)
        IN \A n \in pend \cap MacroTriggers :
              MacroTriggerPoll(pend, r, n, found, r.log.actioned = <<0>>)

\* C33 as stated: the bit of a macro trigger is cleared by no poll but the one
\* that invokes its macro, and stays pending whenever the channel is busy
C33_ClearedOnlyByItsMacro ==
    \A fired \in SUBSET TriggerNumbers, movesSkipped \in BOOLEAN, found \in BOOLEAN :
        LET pend == triggersPending \cup fired
            r == CheckTriggers(cur, fired, movesSkipped, found)
        IN \A n \in pend \cap MacroTriggers :
              MacroTriggerPoll(pend, r, n, found, FALSE)

\* the trigger channel is running the macro of the highest trigger, invoked by
\* the last poll, and trigger 2 has stayed pending behind it
C33_Witness ==
    /\ cycle.actioned = <<MaxTrigger>>
    /\ IsTriggerBusy(cur)
    /\ LatestMachineState(gbs, triggerGCode).doingFileMacro
    /\ triggersPending = {}
    /\ LET r == CheckTriggers(cur, {2}, FALSE, TRUE)
       IN r.log.actioned = <<>> /\ r.triggersPending = {2}

(***************************************************************************)
(* A segment outside the limits (checked under SpecRead).                  *)
(***************************************************************************)
\* the segment ReadMove reaches after skipping those printed before a pause:
\* its number counted from the end of the move
SegmentReached == IF pull.segmentsLeftToStartAt < moveState.segmentsLeft
                  THEN pull.segmentsLeftToStartAt
                  ELSE moveState.segmentsLeft

\* the move buffer after the move has been aborted
AbortedMove(m) == [m EXCEPT !.segMoveState = "aborted", !.doingArcMove = FALSE,
                            !.segmentsLeft = 0]

\* C35: when ReadMove finds that the end-point of an intermediate segment (any
\* but the last) fails the limit check, the whole move is aborted:
\* segmentsLeft becomes 0, segMoveState becomes aborted, doingArcMove is
\* cleared and ReadMove returns false; every later ReadMove returns false and
\* changes nothing, so no further segment of the move is delivered.
C35_LimitFailureAbortsMove ==
    /\ SegmentReached >= 2 =>
          LET r == ReadMoveFrom(moveState, pull.segmentsLeftToStartAt, FALSE)
          IN /\ ~r.result
             /\ r.m = AbortedMove(moveState)
             /\ \A limitOk \in BOOLEAN :
                   ReadMoveFrom(r.m, pull.segmentsLeftToStartAt, limitOk)
                       = [m |-> r.m, result |-> FALSE]
    /\ pull.failed =>
          /\ moveState.segmentsLeft = 0
          /\ pull.reads < pull.n
          /\ lastOp \in {Op("ReadMove", FALSE), Op("FinaliseMove", FALSE)}

\* the first segment of a move of MaxSegments segments failed the limit
\* check: no segment was delivered, the move is aborted and the last read
\* returned false
C35_Witness ==
    /\ pull.failed
    /\ pull.n = MaxSegments
    /\ pull.reads = 0
    /\ pull.segmentsLeftToStartAt = MaxSegments
    /\ lastOp = Op("ReadMove", FALSE)
    /\ moveState.segmentsLeft = 0
    /\ moveState.segMoveState = "aborted"
    /\ ~moveState.doingArcMove

(***************************************************************************)
(* SpecRace: ReadMove runs in the task of the motion consumer and takes no *)
(* lock, so the main task may run between any two of its accesses to       *)
(* segmentsLeft.  ClearMove runs in a critical section and is one step;    *)
(* the store of StopPrint is one word.  Nothing is skipped:                *)
(* segmentsLeftToStartAt is totalSegments, as FinaliseMove leaves it.      *)
(***************************************************************************)
\* segmentsLeft is an unsigned int: a decrement of 0 wraps round to the
\* largest value.  The model keeps the wrap in a word of UnsignedBits bits,
\* wider than any count of segments a move can have.
UnsignedBits == 4

Unsigned(v) == v % (2 ^ UnsignedBits)

raceOthers == <<position, calledIn, pull, words, files, waited, emergencyStopCommanded, build, lastRead,
                granted, cycle>>

\* the main task publishes the move of command c once it finds the buffer free
RacePublish(gb, c) ==
    /\ moveState.segmentsLeft = 0
    /\ moveState' = MoveOf(moveState, c, gb, FALSE)
    /\ reading' = [reading EXCEPT !.withdrawn = FALSE]
    /\ lastOp' = Op("FinaliseMove", TRUE)
    /\ UNCHANGED <<gbs, resourceOwners, toBeHomed, pauseState, isPrinting, triggersPending,
                   nextGcodeSource, codeQueue>>
    /\ UNCHANGED raceOthers

RaceStartPrint ==
    /\ ~isPrinting
    /\ Set(StartPrinting(cur, FALSE))
    /\ UNCHANGED <<reading, lastOp>>
    /\ UNCHANGED raceOthers

\* StopPrint on the main task: moveState.segmentsLeft = 0
RaceStopPrint ==
    /\ isPrinting
    /\ Set(StopPrint(cur))
    /\ reading' = [reading EXCEPT !.withdrawn = TRUE]
    /\ lastOp' = Op("StopPrint", TRUE)
    /\ UNCHANGED raceOthers

RaceClearMove ==
    /\ Set(ClearMove(cur))
    /\ reading' = [reading EXCEPT !.withdrawn = TRUE]
    /\ lastOp' = Op("ClearMove", TRUE)
    /\ UNCHANGED raceOthers

\* another channel pauses the print: DoPause clears the move when moves were
\* skipped or a move is waiting
RaceDoPause(movesSkipped) ==
    /\ IsReallyPrinting(cur)
    /\ LockMovement(cur, "HTTP").result
    /\ Set(DoPause(LockMovement(cur, "HTTP").s, "HTTP", "pausing1", movesSkipped))
    /\ reading' = [reading EXCEPT
                      !.withdrawn = @ \/ movesSkipped \/ moveState.segmentsLeft # 0]
    /\ lastOp' = Op("DoPause", TRUE)
    /\ UNCHANGED raceOthers

RaceDoEmergencyPause(movesSkipped) ==
    /\ DoEmergencyPause(cur, movesSkipped).result
    /\ Set(DoEmergencyPause(cur, movesSkipped).s)
    /\ reading' = [reading EXCEPT
                      !.withdrawn = @ \/ movesSkipped
                                      \/ (moveState.segmentsLeft # 0
                                          /\ moveState.filePos # noFilePosition)]
    /\ lastOp' = Op("DoEmergencyPause", TRUE)
    /\ UNCHANGED raceOthers

raceMain == <<gbs, resourceOwners, toBeHomed, pauseState, isPrinting, triggersPending,
              nextGcodeSource, codeQueue>>

\* if (moveState.segmentsLeft == 0) return false;
RaceEnter ==
    /\ reading.at = "outside"
    /\ IF moveState.segmentsLeft = 0
       THEN /\ lastOp' = Op("ReadMove", FALSE)
            /\ UNCHANGED reading
       ELSE /\ reading' = [reading EXCEPT !.at = "copied"]
            /\ UNCHANGED lastOp
    /\ UNCHANGED <<moveState, raceMain>>
    /\ UNCHANGED raceOthers

\* m = moveState; if (moveState.segmentsLeft == 1) { ...; ClearMove(); }
\* else the end-point of the segment is computed
RaceBranch ==
    /\ reading.at = "copied"
    /\ IF moveState.segmentsLeft = 1
       THEN /\ moveState' = ClearMove(cur).moveState
            /\ reading' = [reading EXCEPT !.at = "outside"]
            /\ lastOp' = Op("ReadMove", TRUE)
       ELSE /\ reading' = [reading EXCEPT !.at = "limits"]
            /\ UNCHANGED <<moveState, lastOp>>
    /\ UNCHANGED raceMain
    /\ UNCHANGED raceOthers

\* LimitPosition on the end-point, and on success the load of the decrement
RaceLimitPosition(limitOk) ==
    /\ reading.at = "limits"
    /\ IF ~limitOk
       THEN /\ moveState' = [moveState EXCEPT !.segMoveState = "aborted",
                                              !.doingArcMove = FALSE,
                                              !.segmentsLeft = 0]
            /\ reading' = [reading EXCEPT !.at = "outside"]
            /\ lastOp' = Op("ReadMove", FALSE)
       ELSE /\ reading' = [reading EXCEPT !.at = "decrement",
                                          !.loaded = moveState.segmentsLeft]
            /\ UNCHANGED <<moveState, lastOp>>
    /\ UNCHANGED raceMain
    /\ UNCHANGED raceOthers

\* --moveState.segmentsLeft: the store of the decrement; return true
RaceDecrement ==
    /\ reading.at = "decrement"
    /\ moveState' = [moveState EXCEPT !.segmentsLeft = Unsigned(reading.loaded - 1)]
    /\ reading' = [reading EXCEPT !.at = "outside", !.loaded = 0]
    /\ lastOp' = Op("ReadMove", TRUE)
    /\ UNCHANGED raceMain
    /\ UNCHANGED raceOthers

NextRace ==
    \/ \E gb \in Builders, c \in MoveCommands : RacePublish(gb, c)
    \/ RaceStartPrint
    \/ RaceStopPrint
    \/ RaceClearMove
    \/ \E movesSkipped \in BOOLEAN : RaceDoPause(movesSkipped)
    \/ \E movesSkipped \in BOOLEAN : RaceDoEmergencyPause(movesSkipped)
    \/ RaceEnter
    \/ RaceBranch
    \/ \E limitOk \in BOOLEAN : RaceLimitPosition(limitOk)
    \/ RaceDecrement

SpecRace == Init /\ [][NextRace]_vars

(***************************************************************************)
(* The count of segments left (SpecRace).                                  *)
(***************************************************************************)
\* C39: in every reachable state 0 <= segmentsLeft <= totalSegments, also
\* while the consumer's ReadMove is interleaved with StopPrint, ClearMove,
\* DoPause and DoEmergencyPause on the main task: the consumer's decrement
\* never wraps segmentsLeft round below zero, and a move the main task has
\* cleared is never given segments again by the consumer.
C39_SegmentsLeftInRange ==
    /\ 0 <= moveState.segmentsLeft
    /\ moveState.segmentsLeft <= moveState.totalSegments
    /\ reading.withdrawn => moveState.segmentsLeft = 0

(***************************************************************************)
(* SpecLimit: a channel reads one G0/G1 whose target the kinematics        *)
(* adjusts or finds unreachable, and the consumer takes what is published. *)
(***************************************************************************)
InitLimit ==
    /\ gbs = [gb \in Channels |-> InitialBuffer]
    /\ resourceOwners = [r \in Resources |-> NoOwner]
    /\ toBeHomed = FALSE
    /\ pauseState = "notPaused"
    /\ isPrinting = FALSE
    /\ triggersPending = {}
    /\ nextGcodeSource = 0
    /\ moveState = InitialMoveState
    /\ codeQueue = {}
    /\ position = InitialPosition
    /\ calledIn = NoCall
    /\ pull = NoPull
    /\ reading = NotReading
    /\ files = InitialFiles
    /\ waited = NotWaited
    /\ words \in LimitWords
    /\ emergencyStopCommanded = FALSE
    /\ build = IdleBuild
    /\ lastRead = NoRead
    /\ granted = [r \in Resources |-> {}]
    /\ cycle = EmptyLog
    /\ lastOp = NoOp

LimitDoStraightMove(gb) ==
    LET l == LockMovement(cur, gb)
        r == DoStraightMoveLimits(l.s, gb, words)
    IN /\ lastOp = NoOp
       /\ l.result
       /\ l.s.moveState.segmentsLeft = 0
       /\ Set(Finish(r.s, gb).s)
       /\ lastOp' = Op("DoStraightMove", r.result)
       /\ calledIn' = [gb |-> gb,
                       s |-> [err |-> r.err, isCoordinated |-> r.isCoordinated,
                              userPositionAdjusted |-> r.userPositionAdjusted,
                              moveState |-> r.s.moveState,
                              published |-> r.s.log.published]]
       /\ UNCHANGED geomOthers

LimitReadMove(limitOk) ==
    /\ moveState.segmentsLeft > 0
    /\ Set(ReadMove(cur, limitOk))
    /\ UNCHANGED <<calledIn, lastOp>>
    /\ UNCHANGED geomOthers

NextLimit ==
    \/ \E gb \in Builders : LimitDoStraightMove(gb)
    \/ \E limitOk \in BOOLEAN : LimitReadMove(limitOk)

SpecLimit == InitLimit /\ [][NextLimit]_vars

(***************************************************************************)
(* Recovery from a position outside the limits (SpecLimit).                *)
(***************************************************************************)
Unreachable == words.lp \in {"intermediateUnreachable", "adjustedAndIntermediateUnreachable"}

Adjusted == words.lp \in {"adjusted", "adjustedAndIntermediateUnreachable"}

\* the move was made available to the consumer
LimitMovePublished == calledIn.s.err = noError /\ calledIn.s.published # <<>>

\* the move was rejected with the error err and nothing was made available
LimitMoveRejected(err) ==
    /\ calledIn.s.err = err
    /\ calledIn.s.published = <<>>
    /\ calledIn.s.moveState.segmentsLeft = 0

\* C34: a G0/G1 whose intermediate positions are unreachable as a coordinated
\* move is published only if it is a coordinated move without positive
\* extrusion on a 3D printer, or a coordinated move with zero laser power on a
\* laser machine, and the retry as an uncoordinated move answers ok; it is
\* then published as an uncoordinated move.  Every other unreachable move is
\* rejected with "target position not reachable from current position",
\* except that on a machine that is not a 3D printer every target that had to
\* be adjusted is rejected with "target position outside machine limits".
C34_LimitRecovery ==
    MoveCommandReturned =>
        /\ (Adjusted /\ words.machineType # "fff") => LimitMoveRejected(StraightChecks[4])
        /\ (Unreachable /\ ~(Adjusted /\ words.machineType # "fff")) =>
              IF words.isCoordinated
                 /\ \/ words.machineType = "fff" /\ words.requestedExtrusionAmount <= 0
                    \/ words.machineType = "laser" /\ words.laserPwm = 0
                 /\ words.lp2 = "ok"
              THEN LimitMovePublished /\ ~calledIn.s.isCoordinated
              ELSE LimitMoveRejected(StraightChecks[5])
        /\ ~Unreachable /\ ~(Adjusted /\ words.machineType # "fff") =>
              LimitMovePublished /\ calledIn.s.isCoordinated = words.isCoordinated

\* a coordinated travel move on a 3D printer whose target was adjusted and
\* whose path is unreachable has been published as an uncoordinated move
C34_Witness ==
    /\ MoveCommandReturned
    /\ words.lp = "adjustedAndIntermediateUnreachable"
    /\ words.machineType = "fff"
    /\ words.isCoordinated
    /\ words.requestedExtrusionAmount = 0
    /\ words.lp2 = "ok"
    /\ LimitMovePublished
    /\ ~calledIn.s.isCoordinated
    /\ moveState.segmentsLeft > 0

(***************************************************************************)
(* SpecHold: prints are started one after the other; the print file calls  *)
(* macros and pauses itself, the HTTP channel pauses and resumes the       *)
(* print, a pause command is deferred while the file channel runs a macro, *)
(* and the motion consumer takes the moves.  files holds the positions in  *)
(* the print file that the pause works with.                               *)
(***************************************************************************)
holdOthers == <<pull, words, reading, waited, position, emergencyStopCommanded, build, lastRead, granted, cycle>>

\* the number of commands of the longest print file
MaxFilePos == 2

\* the print file holds moves, macro calls and pause commands; a macro holds
\* moves and macro calls
HoldFileCommands(s) ==
    IF ~HasPrevious(s.gbs, fileGCode) THEN {G1(1), M98, M226} ELSE {G1(1), M98}

\* the position of the print file that a pause from another channel falls
\* back to
GetFilePositionIn(f, s) ==
    IF ~s.gbs[fileGCode].stack[1].fileLive THEN noFilePos
    ELSE IF IsDoingFileMacro(s, fileGCode) THEN f.printFilePositionAtMacroStart
    ELSE f.filePosition

\* the number of frames that DoPause pops from the file channel
FramesUnwound(s) == Len(s.gbs[fileGCode].stack) - Len(PopFileMacros(s).gbs[fileGCode].stack)

\* what DoPause does to the file positions; at is the position that the
\* skipped or the pending move was read at
DoPauseFiles(f, s, gb, movesSkipped, at) ==
    LET fallsBack == gb # fileGCode /\ ~movesSkipped /\ s.moveState.segmentsLeft = 0
        rpFilePos == IF gb = fileGCode THEN f.filePosition
                     ELSE IF fallsBack THEN GetFilePositionIn(f, s)
                     ELSE at
        unwound == IF fallsBack THEN FramesUnwound(s) ELSE 0
        a == IF fallsBack THEN PopFileMacros(s) ELSE s
        restarts == gb # fileGCode /\ rpFilePos # noFilePos /\ IsDoingFile(a, fileGCode)
    IN [f EXCEPT !.pausedInMacro = unwound > 0,
                 !.unwound = unwound,
                 !.filePosition = IF restarts THEN rpFilePos ELSE @,
                 !.rpFilePos = IF rpFilePos = noFilePos THEN 0 ELSE rpFilePos]

\* a deferred pause command is put into the file channel
CheckForDeferredPause(f, s, gb) ==
    IF gb = fileGCode /\ ~IsDoingFileMacro(s, gb) /\ f.deferredPauseCommandPending
    THEN [s |-> [s EXCEPT !.gbs[gb].buf = "ready", !.gbs[gb].cmd = M226],
          f |-> [f EXCEPT !.deferredPauseCommandPending = FALSE]]
    ELSE [s |-> s, f |-> f]

With(o, f) == [s |-> o.s, result |-> o.result, f |-> f]

\* the file channel executes the command in its buffer
ActOnCodeHeld(f, s) ==
    LET gb == fileGCode
        c == s.gbs[gb].cmd
    IN IF c.code = "M98"
       THEN {With(Finish(DoFileMacro(s, gb, found, TRUE).s, gb),
                  IF ~HasPrevious(s.gbs, gb)
                  THEN [f EXCEPT !.printFilePositionAtMacroStart = f.filePosition]
                  ELSE f)
             : found \in BOOLEAN}
       ELSE IF c.code = "M226" /\ IsReallyPrinting(s)
       THEN {LET l == LockMovementAndWaitForStandstill(s, gb, standstill)
             IN IF ~l.result THEN With(NotFinished(l.s), f)
                ELSE With(Finish(DoPause(l.s, gb, "pausing1", FALSE), gb),
                          DoPauseFiles(f, l.s, gb, FALSE, noFilePos))
             : standstill \in BOOLEAN}
       ELSE {With(o, f) : o \in ActOnCodeOutcomes(s, gb)}

\* the file channel reads its file
DoFilePrintHeld(f, s) ==
    LET gb == fileGCode
        inPrintFile == ~HasPrevious(s.gbs, gb)
    IN \* haveData
       (IF inPrintFile /\ f.filePosition >= MaxFilePos THEN {}
        ELSE UNION {LET s1 == LogFetched([s EXCEPT !.gbs[gb].buf = "ready", !.gbs[gb].cmd = c],
                                         gb)
                        f1 == IF inPrintFile THEN [f EXCEPT !.filePosition = @ + 1] ELSE f
                    IN {With([s |-> o.s, result |-> TRUE], o.f) : o \in ActOnCodeHeld(f1, s1)}
                    : c \in HoldFileCommands(s)})
       \* noData
       \cup (LET b == BufInit(s, gb)
             IN IF inPrintFile
                THEN {LET l == LockMovementAndWaitForStandstill(b, gb, standstill)
                      IN IF l.result
                         THEN [s |-> StopPrint(l.s), result |-> TRUE,
                               f |-> [f EXCEPT !.deferredPauseCommandPending = FALSE]]
                         ELSE [s |-> l.s, result |-> TRUE, f |-> f]
                      : standstill \in BOOLEAN}
                ELSE {LET p == FinishMacro(b, gb)
                          d == IF GetState(p, gb) = "normal"
                               THEN CheckForDeferredPause(f, p, gb)
                               ELSE [s |-> p, f |-> f]
                      IN [s |-> d.s, result |-> TRUE, f |-> d.f]})

\* StartNextGCode with a file channel that starts commands although a pause
\* command is deferred
StartNextGCodeIgnoringDeferred(f, s) ==
    LET gb == fileGCode
    IN IF \/ s.pauseState \in {"paused", "resuming"}
          \/ (~IsDoingFileMacro(s, gb) /\ s.pauseState = "pausing")
       THEN {[s |-> UnlockAll(s, gb), result |-> FALSE, f |-> f]}
       ELSE IF IsReady(s, gb)
       THEN {With([s |-> o.s, result |-> TRUE], o.f) : o \in ActOnCodeHeld(f, s)}
       ELSE IF IsDoingFile(s, gb)
       THEN DoFilePrintHeld(f, s)
       ELSE {[s |-> s, result |-> FALSE, f |-> f]}

\* StartNextGCode of the file channel
StartNextGCodeHeld(f, s) ==
    LET gb == fileGCode
    IN IF \/ s.pauseState \in {"paused", "resuming"}
          \/ (/\ ~IsDoingFileMacro(s, gb)
              /\ (f.deferredPauseCommandPending \/ s.pauseState = "pausing"))
       THEN {[s |-> UnlockAll(s, gb), result |-> FALSE, f |-> f]}
       ELSE IF IsReady(s, gb)
       THEN {With([s |-> o.s, result |-> TRUE], o.f) : o \in ActOnCodeHeld(f, s)}
       ELSE IF IsDoingFile(s, gb)
       THEN DoFilePrintHeld(f, s)
       ELSE {[s |-> s, result |-> FALSE, f |-> f]}

\* the record of the macro that the file channel runs: started by a command
\* of the print file (at the position of that command) or by StartPrinting
Tracked(f, s0, s1, byFile) ==
    [f EXCEPT !.started =
        IF Len(s1.gbs[fileGCode].stack) = 1 THEN NotStarted
        ELSE IF Len(s0.gbs[fileGCode].stack) = 1 THEN [byFile |-> byFile, at |-> f.filePosition]
        ELSE @]

\* a print is started from its beginning: the file channel runs start.g
HoldStartPrint(found) ==
    LET s1 == StartPrinting(cur, found)
    IN /\ ~isPrinting
       /\ ~IsDoingFile(cur, fileGCode)
       /\ Set(s1)
       /\ files' = Tracked([files EXCEPT !.filePosition = 0], cur, s1, FALSE)
       /\ lastOp' = Op("StartPrinting", TRUE)
       /\ calledIn' = NoCall
       /\ UNCHANGED holdOthers

\* the file channel is given a quantum
HoldSpinFile ==
    /\ \E o \in IF GetState(cur, fileGCode) = "normal"
                THEN StartNextGCodeHeld(files, cur)
                ELSE {[s |-> x, result |-> TRUE, f |-> files]
                      : x \in RunStateMachineOutcomes(cur, fileGCode)} :
          /\ Set(Program(o.s))
          /\ files' = Tracked(o.f, cur, o.s, TRUE)
          /\ lastOp' = Op("StartNextGCode", o.result)
    /\ calledIn' = NoCall
    /\ UNCHANGED holdOthers

\* a pause command is deferred until the file channel has left its macro
HoldDeferPause ==
    /\ isPrinting
    /\ ~files.deferredPauseCommandPending
    /\ files' = [files EXCEPT !.deferredPauseCommandPending = TRUE]
    /\ lastOp' = Op("defer", TRUE)
    /\ calledIn' = NoCall
    /\ UNCHANGED <<gbs, resourceOwners, toBeHomed, pauseState, isPrinting, triggersPending,
                   nextGcodeSource, moveState, codeQueue, holdOthers>>

\* the HTTP channel executes M25: the print is paused from another channel
HoldDoPause(movesSkipped, at) ==
    LET gb == "HTTP"
        l == LockMovement(cur, gb)
    IN /\ IsReallyPrinting(cur)
       /\ Fetches(cur, gb)
       /\ l.result
       /\ Set(DoPause(l.s, gb, "pausing1", movesSkipped))
       /\ files' = Tracked(DoPauseFiles(files, l.s, gb, movesSkipped, at), cur,
                           DoPause(l.s, gb, "pausing1", movesSkipped), TRUE)
       /\ lastOp' = Op("DoPause", TRUE)
       /\ calledIn' = [gb |-> gb, s |-> [movesSkipped |-> movesSkipped,
                                          segmentsLeft |-> moveState.segmentsLeft,
                                          files |-> files, frames |-> gbs[fileGCode].stack]]
       /\ UNCHANGED holdOthers

\* the HTTP channel executes M24 or runs its state machine
HoldSpinHttp ==
    LET gb == "HTTP"
    IN /\ \E o \in IF Fetches(cur, gb) THEN ExecuteOutcomes(cur, gb, M24)
                   ELSE SpinGCodeBufferOutcomes(cur, gb) :
             Set(Program(o.s))
       /\ lastOp' = Op("run", TRUE)
       /\ calledIn' = NoCall
       /\ UNCHANGED <<files, holdOthers>>

HoldReadMove ==
    /\ moveState.segmentsLeft > 0
    /\ Set(ReadMove(cur, TRUE))
    /\ lastOp' = Op("run", TRUE)
    /\ calledIn' = NoCall
    /\ UNCHANGED <<files, holdOthers>>

NextHold ==
    \/ \E found \in BOOLEAN : HoldStartPrint(found)
    \/ HoldSpinFile
    \/ HoldDeferPause
    \/ \E movesSkipped \in BOOLEAN, at \in 0..files.filePosition : HoldDoPause(movesSkipped, at)
    \/ HoldSpinHttp
    \/ HoldReadMove

SpecHold == Init /\ [][NextHold]_vars

(***************************************************************************)
(* Properties of the suspended print file (checked under SpecHold).        *)
(***************************************************************************)
\* the frames of the file channel that run a macro
MacroFrames(stack) == {i \in 1..Len(stack) : stack[i].doingFileMacro}

\* DoPause was called from another channel when no move could be skipped
\* and no move was pending
FellBack ==
    /\ lastOp.op = "DoPause"
    /\ calledIn.gb # fileGCode
    /\ ~calledIn.s.movesSkipped
    /\ calledIn.s.segmentsLeft = 0

\* the last known position of the print file at the call of DoPause
LastKnownFilePosition ==
    LET c == calledIn.s
    IN IF ~c.frames[1].fileLive THEN 0
       ELSE IF c.frames[Len(c.frames)].doingFileMacro THEN c.files.started.at
       ELSE c.files.filePosition

\* C36: when DoPause is called from a channel other than the print-file
\* channel, no queued move could be skipped and no move is pending, the
\* restore point takes the last known file position (the position of the
\* print-file command that started the outermost macro when the file channel
\* is inside a macro), every macro frame of the file channel is unwound and
\* pausedInMacro is true exactly when a frame was unwound; in the other
\* branches no macro frame is unwound.
C36_PauseFallsBackToFilePosition ==
    lastOp.op = "DoPause" =>
        LET frames == calledIn.s.frames
        IN IF FellBack
           THEN /\ files.rpFilePos = LastKnownFilePosition
                /\ MacroFrames(gbs[fileGCode].stack) = {}
                /\ files.pausedInMacro <=> Len(gbs[fileGCode].stack) < Len(frames)
           ELSE /\ Len(gbs[fileGCode].stack) = Len(frames)
                /\ ~files.pausedInMacro

\* the part of C36 that does not depend on the recorded position: the
\* frames are unwound in the fall-back branch and in no other
C36_FramesUnwound ==
    lastOp.op = "DoPause" =>
        LET frames == calledIn.s.frames
        IN IF FellBack
           THEN /\ MacroFrames(gbs[fileGCode].stack) = {}
                /\ files.pausedInMacro <=> Len(gbs[fileGCode].stack) < Len(frames)
                /\ files.unwound = Len(frames) - Len(gbs[fileGCode].stack)
           ELSE /\ Len(gbs[fileGCode].stack) = Len(frames)
                /\ ~files.pausedInMacro

\* the restore point is right when the macro was started by a command of
\* the print file
C36_PositionOfMacroCommand ==
    FellBack /\ (MacroFrames(calledIn.s.frames) # {} => calledIn.s.files.started.byFile)
        => files.rpFilePos = LastKnownFilePosition

\* a pause from the HTTP channel fell back while the file channel ran start.g
C36_PausedInStartMacro ==
    /\ FellBack
    /\ MacroFrames(calledIn.s.frames) # {}
    /\ ~calledIn.s.files.started.byFile
    /\ files.pausedInMacro

\* the file channel is held back: its locks are released, nothing else
\* changes and no work is reported
HeldBack(f, s) == StartNextGCodeHeld(f, s) = {[s |-> UnlockAll(s, fileGCode), result |-> FALSE, f |-> f]}

\* an outcome of StartNextGCode in which the file channel has started a
\* command: one was read, or the one in the buffer was executed
StartsCommand(s, o) == o.s.log.fetched # s.log.fetched \/ (IsReady(s, fileGCode) /\ o.result)

\* C37: the print-file channel is suspended while paused: while pauseState is
\* paused or resuming it starts no command, and while pauseState is pausing
\* or a deferred pause command is pending it starts only commands inside a
\* macro frame; each time it is held back it releases its locks and reports
\* no work done, and a deferred pause command is injected only when the file
\* channel is outside any macro.
C37_FileChannelSuspended ==
    /\ [](GetState(cur, fileGCode) = "normal" =>
            /\ pauseState \in {"paused", "resuming"} => HeldBack(files, cur)
            /\ pauseState = "pausing" \/ files.deferredPauseCommandPending =>
                  IF IsDoingFileMacro(cur, fileGCode)
                  THEN \A o \in StartNextGCodeHeld(files, cur) :
                          StartsCommand(cur, o) => HasPrevious(gbs, fileGCode)
                  ELSE HeldBack(files, cur))
    /\ [][files.deferredPauseCommandPending /\ ~files'.deferredPauseCommandPending /\ isPrinting'
             => /\ ~LatestMachineState(gbs', fileGCode).doingFileMacro
                /\ gbs'[fileGCode].buf = "ready"
                /\ gbs'[fileGCode].cmd = M226]_vars

\* the file channel is held back outside a macro while a pause command is
\* deferred, with a lock to release
C37_Witness ==
    /\ files.deferredPauseCommandPending
    /\ pauseState = "notPaused"
    /\ GetState(cur, fileGCode) = "normal"
    /\ ~IsDoingFileMacro(cur, fileGCode)
    /\ LatestMachineState(gbs, fileGCode).lockedResources # {}
    /\ HeldBack(files, cur)

\* the deferred pause command was put into the buffer of the file channel
\* when start.g ended, before a command of the print file was read
C37_Injected ==
    /\ ~files.deferredPauseCommandPending
    /\ lastOp.op = "StartNextGCode"
    /\ files.filePosition = 0
    /\ gbs[fileGCode].cmd = M226
    /\ gbs[fileGCode].buf = "ready"
    /\ ~HasPrevious(gbs, fileGCode)

(***************************************************************************)
(* SpecSched: the main loop calls Spin again and again with no emergency   *)
(* stop.  The HTTP channel is sent moves and starts prints, the print file *)
(* holds moves, retractions and pauses, trigger 2 runs its macro of moves  *)
(* on the trigger channel, and the motion consumer takes the segments.     *)
(* waited counts, for each round-robin slot, the calls of Spin since the   *)
(* slot was last serviced.                                                 *)
(***************************************************************************)
schedOthers == <<position, calledIn, pull, words, reading, files, emergencyStopCommanded, build, lastRead,
                 granted, lastOp>>

\* the trigger that runs a macro on the trigger channel
SchedTriggers == {2}

\* the commands the HTTP channel is sent
SchedCommands == {"G1", "M32"}

\* the calls of Spin counted by waited: one more than the slots
MaxWaited == NumSources

\* Spin without a commanded emergency stop: the triggers are polled, the
\* auto-pause channel is given its quantum, then the round-robin scan
SchedSpinOutcomes(s) ==
    {o \in UNION {UNION {ScanOutcomes(a.s, a.s.nextGcodeSource)
                         : a \in SpinGCodeBufferOutcomes(t, autoPauseGCode)}
                  : t \in {CheckTriggers(s, fired, FALSE, found)
                           : fired \in SUBSET SchedTriggers, found \in BOOLEAN}}
       : o.gbs["HTTP"].cmd.code \in SchedCommands \cup {NoCommand.code}}

\* the slots the call with log c serviced
Serviced(c) == {i \in 1..(NumSources - 1) :
                   \E k \in 2..Len(c.serviced) : c.serviced[k].gb = gcodeSources[i]}

SchedSpin ==
    /\ \E o \in SchedSpinOutcomes(cur) :
          /\ Set(Program(o))
          /\ cycle' = Kept(o.log, nextGcodeSource)
          /\ waited' = [i \in 1..(NumSources - 1) |->
                           IF i \in Serviced(o.log) THEN 0
                           ELSE IF waited[i] < MaxWaited THEN waited[i] + 1 ELSE waited[i]]
    /\ UNCHANGED schedOthers

SchedReadMove ==
    /\ moveState.segmentsLeft > 0
    /\ Set(ReadMove(cur, TRUE))
    /\ UNCHANGED <<cycle, waited, schedOthers>>

NextSched ==
    \/ SchedSpin
    \/ SchedReadMove

SpecSched == Init /\ [][NextSched]_vars

(***************************************************************************)
(* Properties of the scheduler over consecutive calls of Spin (checked     *)
(* under SpecSched).                                                       *)
(***************************************************************************)
\* the channels a call of Spin offered a quantum in its round-robin scan
OfferedChannels(c) == {Offered(c)[k].gb : k \in 1..Len(Offered(c))}

\* the scan of the call with log c went through the slots in cyclic order
InCyclicOrder(c) ==
    \A k \in 1..(Len(Offered(c)) - 1) :
       SourceIndex(Offered(c)[k + 1].gb) = SourceAfter(SourceIndex(Offered(c)[k].gb))

\* C38: bounded waiting in the scheduler.  Across consecutive calls of Spin
\* with no Reset the round-robin channels are serviced in strict cyclic index
\* order (each call takes up the scan where the call before left it), no
\* channel is serviced twice within one call, and every round-robin channel
\* is serviced at least once in any N consecutive calls, N being the number
\* of round-robin slots, however many of the other channels report work.
C38_BoundedWaiting ==
    /\ [](cycle # EmptyLog =>
            /\ InCyclicOrder(cycle)
            /\ Cardinality(OfferedChannels(cycle)) = Len(Offered(cycle))
            /\ \A i \in 1..RoundRobinSources : waited[i] < RoundRobinSources)
    /\ [][cycle' # cycle \/ waited' # waited =>
            /\ Offered(cycle')[1].gb = gcodeSources[nextGcodeSource + 1]
            /\ nextGcodeSource' =
                  SourceAfter(SourceIndex(Offered(cycle')[Len(Offered(cycle'))].gb))]_vars

\* a channel has waited N - 1 calls of Spin, in each of which the first
\* channel offered a quantum reported work; it is at the cursor now
C38_Witness ==
    \E i \in 1..RoundRobinSources :
       /\ waited[i] = RoundRobinSources - 1
       /\ nextGcodeSource = i - 1
       /\ Len(Offered(cycle)) = 1
       /\ Offered(cycle)[1].result

(***************************************************************************)
(* SpecSchedFair: SpecSched with the main loop calling Spin for ever, the  *)
(* motion consumer taking every segment offered to it, and every channel   *)
(* that acquires Movement releasing it in the end.                         *)
(***************************************************************************)
\* a call of Spin changes the state wherever it is made
SpinAlwaysPossible == \E o \in SchedSpinOutcomes(cur) : Program(o) # Program(cur)

\* the main loop goes on for ever.  Every step of SpecSched is a call of Spin
\* or a read of the motion consumer and a call of Spin is possible in every
\* state (SpinAlwaysPossible), so weak fairness of NextSched is that steps
\* are taken again and again; the consumer alone takes finitely many
MainLoopRuns == []<><<TRUE>>_vars

\* no channel keeps Movement for ever
EveryOwnerReleases == \A gb \in Channels : []<>(resourceOwners[MoveResource] # gb)

SpecSchedFair ==
    /\ SpecSched
    /\ MainLoopRuns
    /\ WF_vars(SchedReadMove)
    /\ EveryOwnerReleases

\* gb calls LockMovement (G1) or LockMovementAndWaitForStandstill (G10) on
\* each of its turns: the command is in its buffer, it is not suspended and
\* it does not own Movement
Retrying(gb) ==
    /\ IsReady(cur, gb)
    /\ gbs[gb].cmd.code \in {"G1", "G10"}
    /\ GetState(cur, gb) = "normal"
    /\ ~LatestMachineState(gbs, gb).messageAcknowledged
    /\ ~(gb = fileGCode /\ pauseState # "notPaused")
    /\ resourceOwners[MoveResource] # gb

\* gb has got Movement: it owns it, or the command that needed it has been
\* executed
Acquired(gb) == resourceOwners[MoveResource] = gb \/ ~IsReady(cur, gb)

\* C40: starvation freedom of the Movement lock.  When every channel that
\* acquires Movement releases it in the end and the motion consumer keeps
\* taking segments, a channel that retries LockMovement or
\* LockMovementAndWaitForStandstill on each of its turns acquires the lock in
\* the end, whatever the other channels do; and a failed attempt does not
\* block the scheduler: the call of Spin returns with the cursor behind the
\* channel that failed.
C40_NoStarvation ==
    /\ \A gb \in Channels \ {autoPauseGCode} : Retrying(gb) ~> Acquired(gb)
    /\ [](\A gb \in Channels \ {autoPauseGCode} :
             Retrying(gb) /\ gb \in OfferedChannels(cycle) =>
                nextGcodeSource # SourceIndex(gb) \/ Len(Offered(cycle)) = RoundRobinSources)

\* the HTTP channel has just been refused Movement, which the file channel
\* owns, and the call of Spin has returned with the cursor behind it
C40_Witness ==
    /\ Retrying("HTTP")
    /\ resourceOwners[MoveResource] = fileGCode
    /\ Offered(cycle)[Len(Offered(cycle))] = [gb |-> "HTTP", result |-> TRUE]
    /\ nextGcodeSource = SourceAfter(SourceIndex("HTTP"))

====
